---------------------------- MODULE Spec2Model ----------------------------
(***************************************************************************)
(* A model of the elite_admin backend (Django REST): the membership-tier   *)
(* gate over the People directory, the profile presenters (canonical       *)
(* picture, image gallery, derived age), the notification time_ago helper, *)
(* the notification feed with its administrative actions, and the photo    *)
(* views of an Account.  Every definition is translated from app/views.py, *)
(* app/serializers.py, app/models.py or app/admin.py; the Notification     *)
(* model, which those files import but which is not among them, follows    *)
(* its description in the specification.                                   *)
(*                                                                         *)
(* Encoding of Python values:                                              *)
(*   - a text value whose characters matter (searched names, image         *)
(*     references, URLs) is a sequence of tokens; "" and None for such a   *)
(*     value are both the empty sequence, which is falsy as in Python;     *)
(*   - an optional number (age) is <<>> for None and <<n>> for n;          *)
(*   - a label that is only compared for equality (tier, gender, query     *)
(*     string) is a TLA+ string, "" when absent.                           *)
(***************************************************************************)
EXTENDS Integers, Sequences, FiniteSets

VARIABLES
    accounts,    \* CustomUser rows: id -> record
    people,      \* People rows: id -> record (photos are the PeoplePhoto rows)
    today,       \* timezone.now().date() as <<year, month, day>>
    cloud_name,  \* settings.CLOUDINARY_STORAGE['CLOUD_NAME'] ("" when unset)
    subject,     \* the profile (picture attribute + photo rows) a presenter is applied to
    birth,       \* date_of_birth of the record whose age is derived (<<>> when null)
    elapsed,     \* ticks between a notification's created_at and timezone.now()
    notifications, \* Notification rows: id -> record
    user_photos, \* UserPhoto rows: id -> record
    last_id,     \* the last primary key each table handed out (never reused)
    clock,       \* timezone.now() of the notification feed
    tokens,      \* Token rows: user id -> key
    inflight,    \* the requests being served concurrently: what each has read so far
    resp         \* the response (or presenter result) of the last operation

vars == <<accounts, people, today, cloud_name, subject, birth, elapsed,
          notifications, user_photos, last_id, clock, tokens, inflight, resp>>

---------------------------------------------------------------------------
(* Bounds of the model *)

\* number of People rows in the directory
NumPersons == 2
\* cap on profile_views (the counter itself is unbounded)
MaxViews == 1

PersonIds == 1..NumPersons
\* ids a request may name: every row plus one id with no row
RequestIds == 1..(NumPersons + 1)
UserIds == {1}

\* tier labels: the three MEMBERSHIP_CHOICES and one label outside them
KnownTiers == {"regular", "gold", "platinum"}
TierLabels == KnownTiers \cup {"vip"}

None == <<>>
Some(x) == <<x>>

\* no row created yet in either table
NoRows == [notification |-> 0, photo |-> 0, token |-> 0]

---------------------------------------------------------------------------
(* Text helpers *)

\* str.lower() over the letters the model uses
LowerChar(c) ==
    CASE c = "A" -> "a" [] c = "B" -> "b" [] c = "D" -> "d" [] c = "E" -> "e"
      [] c = "L" -> "l" [] c = "R" -> "r" [] OTHER -> c

Lower(s) == [i \in 1..Len(s) |-> LowerChar(s[i])]

\* sub in s
Contains(sub, s) ==
    \E i \in 1..(Len(s) - Len(sub) + 1) : SubSeq(s, i, i + Len(sub) - 1) = sub

\* field__icontains=term
icontains(field, term) == Contains(Lower(term), Lower(field))

\* str.startswith('http')
startswith_http(s) == Len(s) >= 1 /\ s[1] = "http"


---------------------------------------------------------------------------
(* Photo rows and their stored ordering (UserPhoto / PeoplePhoto) *)

\* Meta.ordering = ['order', '-is_profile_picture', '-uploaded_at']:
\* row a sorts before row b
MetaOrderingBefore(a, b) ==
    \/ a.order < b.order
    \/ /\ a.order = b.order
       /\ a.is_profile_picture /\ ~b.is_profile_picture
    \/ /\ a.order = b.order
       /\ a.is_profile_picture = b.is_profile_picture
       /\ a.uploaded_at > b.uploaded_at

\* obj.photos.all(): the owner's rows in the stored ordering
photos_all(rows) ==
    [k \in 1..Len(rows) |->
        rows[CHOOSE i \in 1..Len(rows) :
                Cardinality({j \in 1..Len(rows) :
                                MetaOrderingBefore(rows[j], rows[i])}) = k - 1]]

IsFlagged(row) == row.is_profile_picture

\* obj.photos.filter(is_profile_picture=True)
photos_filter_is_profile_picture(rows) == SelectSeq(photos_all(rows), IsFlagged)

\* QuerySet.first(): None or the first row of an ordered queryset
first(qs) == IF Len(qs) = 0 THEN None ELSE Some(qs[1])

---------------------------------------------------------------------------
(* URL materialisation: one copy per serializer, as in the source *)

CloudinaryUrl(image_str) ==
    <<"http", "s://res.cloudinary.com/", cloud_name, "/">> \o image_str

\* PeopleListSerializer._get_full_image_url
List_get_full_image_url(image_field) ==
    IF image_field = None THEN None
    ELSE IF startswith_http(image_field) THEN image_field
    ELSE IF cloud_name # "" THEN CloudinaryUrl(image_field)
    ELSE image_field

\* PeopleDetailSerializer._get_full_image_url
Detail_get_full_image_url(image_field) ==
    IF image_field = None THEN None
    ELSE IF startswith_http(image_field) THEN image_field
    ELSE IF cloud_name # "" THEN CloudinaryUrl(image_field)
    ELSE image_field

\* NotificationPersonSerializer._get_full_image_url
Notif_get_full_image_url(image_field) ==
    IF image_field = None THEN None
    ELSE IF startswith_http(image_field) THEN image_field
    ELSE IF cloud_name # "" THEN CloudinaryUrl(image_field)
    ELSE image_field

---------------------------------------------------------------------------
(* Canonical picture: one copy per serializer, as in the source *)

\* PeopleListSerializer.get_profile_picture
List_get_profile_picture(obj) ==
    IF obj.profile_picture # None
    THEN List_get_full_image_url(obj.profile_picture)
    ELSE LET profile_photo == first(photos_filter_is_profile_picture(obj.photos))
             first_photo == first(photos_all(obj.photos))
         IN  IF profile_photo # None
             THEN List_get_full_image_url(profile_photo[1].image)
             ELSE IF first_photo # None
             THEN List_get_full_image_url(first_photo[1].image)
             ELSE None

\* PeopleDetailSerializer.get_profile_picture
Detail_get_profile_picture(obj) ==
    IF obj.profile_picture # None
    THEN Detail_get_full_image_url(obj.profile_picture)
    ELSE LET profile_photo == first(photos_filter_is_profile_picture(obj.photos))
             first_photo == first(photos_all(obj.photos))
         IN  IF profile_photo # None
             THEN Detail_get_full_image_url(profile_photo[1].image)
             ELSE IF first_photo # None
             THEN Detail_get_full_image_url(first_photo[1].image)
             ELSE None

\* mutant of Notif_get_profile_picture: the flagged photo is preferred to the
\* primary-picture attribute
Notif_get_profile_picture_photo_first(obj) ==
    LET profile_photo == first(photos_filter_is_profile_picture(obj.photos))
        first_photo == first(photos_all(obj.photos))
    IN  IF profile_photo # None
        THEN Notif_get_full_image_url(profile_photo[1].image)
        ELSE IF obj.profile_picture # None
        THEN Notif_get_full_image_url(obj.profile_picture)
        ELSE IF first_photo # None
        THEN Notif_get_full_image_url(first_photo[1].image)
        ELSE None

\* NotificationPersonSerializer.get_profile_picture
Notif_get_profile_picture(obj) ==
    IF obj.profile_picture # None
    THEN Notif_get_full_image_url(obj.profile_picture)
    ELSE LET profile_photo == first(photos_filter_is_profile_picture(obj.photos))
             first_photo == first(photos_all(obj.photos))
         IN  IF profile_photo # None
             THEN Notif_get_full_image_url(profile_photo[1].image)
             ELSE IF first_photo # None
             THEN Notif_get_full_image_url(first_photo[1].image)
             ELSE None

\* UserProfileSerializer.get_profile_picture: str(photo.image), and the
\* Account's own profile_picture attribute is not read
UserProfile_get_profile_picture(obj) ==
    LET profile_photo == first(photos_filter_is_profile_picture(obj.photos))
        first_photo == first(photos_all(obj.photos))
    IN  IF profile_photo # None THEN profile_photo[1].image
        ELSE IF first_photo # None THEN first_photo[1].image
        ELSE None

---------------------------------------------------------------------------
(* Image gallery *)

\* mutant of InSeq: the membership test never finds the URL
InSeq_never(x, s) == FALSE

\* url in images
InSeq(x, s) == \E i \in 1..Len(s) : s[i] = x

\* the loop of get_images over the ordered photos, images being the list so far
RECURSIVE get_images_loop(_, _)
get_images_loop(images, qs) ==
    IF Len(qs) = 0 THEN images
    ELSE LET url == Detail_get_full_image_url(qs[1].image)
         IN  IF url # None /\ ~InSeq(url, images)
             THEN get_images_loop(Append(images, url), Tail(qs))
             ELSE get_images_loop(images, Tail(qs))

\* PeopleDetailSerializer.get_images
get_images(obj) ==
    LET images0 == IF obj.profile_picture # None
                   THEN <<Detail_get_full_image_url(obj.profile_picture)>>
                   ELSE <<>>
    IN  get_images_loop(images0, photos_all(obj.photos))

---------------------------------------------------------------------------
(* Derived age (dates are <<year, month, day>>) *)

\* mutant of MonthDayLess: <= in place of <
MonthDayLess_or_equal(a, b) == a[2] < b[2] \/ (a[2] = b[2] /\ a[3] <= b[3])

\* Python's (today.month, today.day) < (dob.month, dob.day) on tuples
MonthDayLess(a, b) == a[2] < b[2] \/ (a[2] = b[2] /\ a[3] < b[3])

BoolInt(b) == IF b THEN 1 ELSE 0

\* today.year - dob.year - ((today.month, today.day) < (dob.month, dob.day))
YearsBetween(dob, now) == now[1] - dob[1] - BoolInt(MonthDayLess(now, dob))

\* CustomUser.age (property)
CustomUser_age(date_of_birth) ==
    IF date_of_birth # None THEN Some(YearsBetween(date_of_birth, today)) ELSE None

\* mutant of People_save_age: save() keeps the age the instance carries
People_save_age_kept(self) == self.age

\* People.save: the age the instance carries after save()
People_save_age(self) ==
    IF self.date_of_birth # None
    THEN Some(YearsBetween(self.date_of_birth, today))
    ELSE self.age

---------------------------------------------------------------------------
(* Notification time_ago *)

\* resolution of the clock difference: ticks per second (total_seconds() is
\* fractional)
TicksPerSecond == 2

SecondsPerMinute == 60
SecondsPerHour == 3600
SecondsPerDay == 86400
SecondsPerWeek == 604800

\* mutant of int_div: round(seconds / unit), halves rounded up
int_div_rounded(ticks, unit) ==
    (2 * ticks + unit * TicksPerSecond) \div (2 * unit * TicksPerSecond)

\* int(seconds / unit) for seconds = ticks / TicksPerSecond: truncation
\* towards zero
int_div(ticks, unit) ==
    IF ticks >= 0 THEN ticks \div (unit * TicksPerSecond)
    ELSE -((-ticks) \div (unit * TicksPerSecond))

\* seconds < limit
seconds_lt(ticks, limit) == ticks < limit * TicksPerSecond

\* NotificationSerializer.get_time_ago, the f-string as number + suffix
get_time_ago(ticks) ==
    IF seconds_lt(ticks, SecondsPerMinute)
    THEN [number |-> None, text |-> "Just now"]
    ELSE IF seconds_lt(ticks, SecondsPerHour)
    THEN [number |-> Some(int_div(ticks, SecondsPerMinute)), text |-> "m ago"]
    ELSE IF seconds_lt(ticks, SecondsPerDay)
    THEN [number |-> Some(int_div(ticks, SecondsPerHour)), text |-> "h ago"]
    ELSE IF seconds_lt(ticks, SecondsPerWeek)
    THEN [number |-> Some(int_div(ticks, SecondsPerDay)), text |-> "d ago"]
    ELSE [number |-> Some(int_div(ticks, SecondsPerWeek)), text |-> "w ago"]

---------------------------------------------------------------------------
(* Membership tier resolver and the serializers of a People row *)

\* membership_hierarchy = {'regular': 1, 'gold': 2, 'platinum': 3}
membership_hierarchy == [t \in KnownTiers |->
    CASE t = "regular" -> 1 [] t = "gold" -> 2 [] t = "platinum" -> 3]

\* mutant of hierarchy_get: an unknown label resolves to 0
hierarchy_get_default_zero(label) ==
    IF label \in DOMAIN membership_hierarchy THEN membership_hierarchy[label] ELSE 0

\* membership_hierarchy.get(label, 1)
hierarchy_get(label) ==
    IF label \in DOMAIN membership_hierarchy THEN membership_hierarchy[label] ELSE 1

\* full_name property: f"{first_name} {last_name}"
full_name(obj) == obj.first_name \o <<" ">> \o obj.last_name

SocialHandles == {"whatsapp", "instagram", "twitter", "telegram"}

\* PeopleDetailSerializer.get_social_media: only the non-empty handles
get_social_media(obj) ==
    [h \in {k \in SocialHandles : obj[k] # ""} |-> obj[h]]

\* PeoplePhotoSerializer over obj.photos (many=True)
PeoplePhotoSerializer(rows) ==
    LET qs == photos_all(rows)
    IN  [k \in 1..Len(qs) |->
            [id |-> qs[k].id,
             image |-> Detail_get_full_image_url(qs[k].image),
             is_profile_picture |-> qs[k].is_profile_picture,
             uploaded_at |-> qs[k].uploaded_at,
             order |-> qs[k].order]]

\* PeopleDetailSerializer(person).data (the random distance placeholder and
\* the free-text fields no operation reads are left out)
PeopleDetailSerializer(obj) ==
    [id |-> obj.id,
     first_name |-> obj.first_name,
     last_name |-> obj.last_name,
     full_name |-> full_name(obj),
     age |-> obj.age,
     date_of_birth |-> obj.date_of_birth,
     gender |-> obj.gender,
     occupation |-> obj.occupation,
     location |-> obj.location,
     membership_type |-> obj.membership_type,
     verified |-> obj.verified,
     profile_views |-> obj.profile_views,
     profile_picture |-> Detail_get_profile_picture(obj),
     photos |-> PeoplePhotoSerializer(obj.photos),
     images |-> get_images(obj),
     social_media |-> get_social_media(obj)]

\* PeopleListSerializer(person).data (same omissions)
PeopleListSerializer(obj) ==
    [id |-> obj.id,
     first_name |-> obj.first_name,
     last_name |-> obj.last_name,
     full_name |-> full_name(obj),
     age |-> obj.age,
     occupation |-> obj.occupation,
     location |-> obj.location,
     verified |-> obj.verified,
     profile_picture |-> List_get_profile_picture(obj),
     membership_type |-> obj.membership_type]

---------------------------------------------------------------------------
(* Query strings of GET people *)

\* str.lower() of a query value
lower_str(v) == IF v = "True" THEN "true" ELSE v

\* int(v): whether v parses, and what it parses to
int_ok(v) == v = "30"
int_val(v) == 30

NoQuery ==
    [membership_tier |-> "", verified_only |-> "", age_min |-> "",
     age_max |-> "", gender |-> "", search |-> <<>>]

\* the query strings the requests carry, "" (or <<>>) for an absent one: no
\* filter, every filter, and the values the view ignores ("abc", "robot")
Queries ==
    {NoQuery,
     [NoQuery EXCEPT !.membership_tier = "gold"],
     [NoQuery EXCEPT !.verified_only = "True", !.search = <<"d", "E">>],
     [NoQuery EXCEPT !.age_min = "30", !.age_max = "abc", !.gender = "robot"],
     [NoQuery EXCEPT !.age_max = "30", !.gender = "female"]}

---------------------------------------------------------------------------
(* People views *)

\* People.objects.get(id=person_id, is_active=True): <<>> is DoesNotExist
People_get_active(person_id) ==
    IF person_id \in DOMAIN people /\ people[person_id].is_active
    THEN Some(people[person_id]) ELSE None

\* mutant of list_queryset: the base queryset is not restricted to active rows
list_queryset_inactive_too(q) ==
    {i \in DOMAIN people :
        q.membership_tier # "" => people[i].membership_type = q.membership_tier}

\* the filter chain of get_people_list: ids of the rows the queryset holds
list_queryset(q) ==
    LET verified_only == lower_str(q.verified_only) = "true"
    IN  {i \in DOMAIN people :
            /\ people[i].is_active
            /\ q.membership_tier # "" => people[i].membership_type = q.membership_tier
            /\ verified_only => people[i].verified
            /\ (q.age_min # "" /\ int_ok(q.age_min)) =>
                   (people[i].age # None /\ people[i].age[1] >= int_val(q.age_min))
            /\ (q.age_max # "" /\ int_ok(q.age_max)) =>
                   (people[i].age # None /\ people[i].age[1] <= int_val(q.age_max))
            /\ (q.gender # "" /\ q.gender \in {"male", "female", "other"}) =>
                   people[i].gender = q.gender
            /\ q.search # <<>> =>
                   \/ icontains(people[i].first_name, q.search)
                   \/ icontains(people[i].last_name, q.search)
                   \/ icontains(people[i].occupation, q.search)
                   \/ icontains(people[i].location, q.search)}

\* queryset.order_by('-created_at'): the ids, newest row first
order_by_created_desc(ids) ==
    [k \in 1..Cardinality(ids) |->
        CHOOSE i \in ids :
            Cardinality({j \in ids : people[j].created_at > people[i].created_at}) = k - 1]

\* get_people_list
get_people_list(u, q) ==
    LET user_membership == accounts[u].membership_type
        user_level == hierarchy_get(user_membership)
        queryset == order_by_created_desc(list_queryset(q))
    IN  /\ resp' = [op |-> "get_people_list",
                    request |-> [user |-> u, query |-> q],
                    status |-> 200,
                    body |-> [results |-> [k \in 1..Len(queryset) |->
                                              PeopleListSerializer(people[queryset[k]])],
                              count |-> Len(queryset),
                              user_membership |-> user_membership,
                              user_membership_level |-> user_level]]
        /\ UNCHANGED <<accounts, people, today, cloud_name, subject, birth, elapsed,
                   notifications, user_photos, last_id, clock,
                   tokens, inflight>>

\* mutant of locked_body: the locked response also names the subject
locked_body_with_name(person, user_membership) ==
    [error |-> "Access denied",
     message |-> <<"Upgrade to ", person.membership_type,
                   " membership to view this profile">>,
     required_membership |-> person.membership_type,
     user_membership |-> user_membership,
     full_name |-> full_name(person),
     locked |-> TRUE]

\* the body of the 403 response of get_person_detail
locked_body(person, user_membership) ==
    [error |-> "Access denied",
     message |-> <<"Upgrade to ", person.membership_type,
                   " membership to view this profile">>,
     required_membership |-> person.membership_type,
     user_membership |-> user_membership,
     locked |-> TRUE]

\* mutant of increment_profile_views: the view is counted twice
increment_profile_views_twice(person) == [person EXCEPT !.profile_views = @ + 2]

\* person.profile_views += 1
increment_profile_views(person) == [person EXCEPT !.profile_views = @ + 1]

\* get_person_detail: the lookup failed
get_person_detail_not_found(u, person_id) ==
    /\ People_get_active(person_id) = None
    /\ resp' = [op |-> "get_person_detail",
                request |-> [user |-> u, person_id |-> person_id],
                status |-> 404,
                body |-> [error |-> "Person not found"]]
    /\ UNCHANGED <<accounts, people, today, cloud_name, subject, birth, elapsed,
                   notifications, user_photos, last_id, clock,
                   tokens, inflight>>

\* get_person_detail: user_level < person_level
get_person_detail_denied(u, person_id) ==
    /\ People_get_active(person_id) # None
    /\ LET person == People_get_active(person_id)[1]
           user_membership == accounts[u].membership_type
           person_membership == person.membership_type
           user_level == hierarchy_get(user_membership)
           person_level == hierarchy_get(person_membership)
       IN  /\ user_level < person_level
           /\ resp' = [op |-> "get_person_detail",
                       request |-> [user |-> u, person_id |-> person_id],
                       status |-> 403,
                       body |-> locked_body(person, user_membership)]
    /\ UNCHANGED <<accounts, people, today, cloud_name, subject, birth, elapsed,
                   notifications, user_photos, last_id, clock,
                   tokens, inflight>>

\* get_person_detail: access granted; profile_views += 1 and
\* save(update_fields=['profile_views']), which writes that column only while
\* People.save refreshes the age of the instance that is then serialized
get_person_detail_granted(u, person_id) ==
    /\ People_get_active(person_id) # None
    /\ LET person == People_get_active(person_id)[1]
           user_membership == accounts[u].membership_type
           person_membership == person.membership_type
           user_level == hierarchy_get(user_membership)
           person_level == hierarchy_get(person_membership)
           viewed == increment_profile_views(person)
           saved == [viewed EXCEPT !.age = People_save_age(viewed)]
       IN  /\ ~(user_level < person_level)
           /\ person.profile_views < MaxViews
           /\ people' = [people EXCEPT ![person_id].profile_views = viewed.profile_views]
           /\ resp' = [op |-> "get_person_detail",
                       request |-> [user |-> u, person_id |-> person_id],
                       status |-> 200,
                       body |-> [person |-> PeopleDetailSerializer(saved),
                                 locked |-> FALSE,
                                 user_membership |-> user_membership]]
    /\ UNCHANGED <<accounts, today, cloud_name, subject, birth, elapsed,
                   notifications, user_photos, last_id, clock,
                   tokens, inflight>>

\* get_person_detail
get_person_detail(u, person_id) ==
    \/ get_person_detail_not_found(u, person_id)
    \/ get_person_detail_denied(u, person_id)
    \/ get_person_detail_granted(u, person_id)

\* get_people_stats
get_people_stats(u) ==
    LET user_membership == accounts[u].membership_type
        user_level == hierarchy_get(user_membership)
        accessible_tiers == {t \in DOMAIN membership_hierarchy :
                                membership_hierarchy[t] <= user_level}
        active == {i \in DOMAIN people : people[i].is_active}
        tier_count(t) == Cardinality({i \in active : people[i].membership_type = t})
    IN  /\ resp' = [op |-> "get_people_stats",
                    request |-> [user |-> u],
                    status |-> 200,
                    body |-> [total_people |-> Cardinality(active),
                              accessible_people |-> Cardinality({i \in active :
                                  people[i].membership_type \in accessible_tiers}),
                              verified_people |-> Cardinality({i \in active :
                                  people[i].verified}),
                              by_tier |-> [regular |-> tier_count("regular"),
                                           gold |-> tier_count("gold"),
                                           platinum |-> tier_count("platinum")],
                              user_membership |-> user_membership,
                              user_level |-> user_level]]
        /\ UNCHANGED <<accounts, people, today, cloud_name, subject, birth, elapsed,
                   notifications, user_photos, last_id, clock,
                   tokens, inflight>>

\* check_access_to_person
check_access_to_person(u, person_id) ==
    /\ IF People_get_active(person_id) = None
       THEN resp' = [op |-> "check_access_to_person",
                     request |-> [user |-> u, person_id |-> person_id],
                     status |-> 404,
                     body |-> [error |-> "Person not found"]]
       ELSE LET person == People_get_active(person_id)[1]
                user_membership == accounts[u].membership_type
                person_membership == person.membership_type
                user_level == hierarchy_get(user_membership)
                person_level == hierarchy_get(person_membership)
                has_access == user_level >= person_level
            IN  resp' = [op |-> "check_access_to_person",
                         request |-> [user |-> u, person_id |-> person_id],
                         status |-> 200,
                         body |-> [has_access |-> has_access,
                                   person_membership |-> person_membership,
                                   user_membership |-> user_membership,
                                   required_upgrade |->
                                       IF has_access THEN "" ELSE person_membership]]
    /\ UNCHANGED <<accounts, people, today, cloud_name, subject, birth, elapsed,
                   notifications, user_photos, last_id, clock,
                   tokens, inflight>>

---------------------------------------------------------------------------
(* The directory the gate is exercised on *)

\* image references: a storage-relative key, the absolute URL that key
\* materialises to under cloud name "demo", and an unrelated absolute URL
RelKey == <<"people/a.jpg">>
AbsOfRelKey == <<"http", "s://res.cloudinary.com/", "demo", "/", "people/a.jpg">>
AbsOther == <<"http", "://cdn.example/b.jpg">>
ImageRefs == {RelKey, AbsOfRelKey, AbsOther}

GateToday == <<2024, 6, 15>>

\* a PeoplePhoto row
PhotoRow(id, image, flag, order) ==
    [id |-> id, image |-> image, is_profile_picture |-> flag,
     order |-> order, uploaded_at |-> id]

\* the People row with primary key i, tier t and active flag a: odd rows carry
\* a primary picture and social handles, even rows carry photos only
PersonRow(i, t, a) ==
    [id |-> i,
     first_name |-> IF i % 2 = 1 THEN <<"A", "n", "a">> ELSE <<"B", "o">>,
     last_name |-> <<"L", "i">>,
     occupation |-> IF i % 2 = 1 THEN <<"D", "e", "v">> ELSE <<"c", "h", "e", "f">>,
     location |-> IF i % 2 = 1 THEN <<"R", "i", "o">> ELSE <<"L", "a", "n", "d">>,
     gender |-> IF i % 2 = 1 THEN "female" ELSE "male",
     verified |-> i % 2 = 1,
     date_of_birth |-> IF i % 2 = 1 THEN <<1995, 6, 15>> ELSE <<1990, 12, 1>>,
     age |-> Some(IF i % 2 = 1 THEN 29 ELSE 33),
     membership_type |-> t,
     is_active |-> a,
     whatsapp |-> "",
     instagram |-> IF i % 2 = 1 THEN "@ana" ELSE "",
     twitter |-> "",
     telegram |-> IF i % 2 = 1 THEN "" ELSE "@bo",
     profile_picture |-> IF i % 2 = 1 THEN RelKey ELSE None,
     photos |-> IF i % 2 = 1 THEN <<>>
                ELSE <<PhotoRow(1, RelKey, FALSE, 0), PhotoRow(2, AbsOther, TRUE, 1)>>,
     created_at |-> i,
     profile_views |-> 0]

NoSubject == [profile_picture |-> None, photos |-> <<>>]

\* the directory: every tier label and active flag for every row; one
\* account of any tier label
Init ==
    /\ accounts \in [UserIds -> [membership_type : TierLabels]]
    /\ people \in {[i \in PersonIds |-> PersonRow(i, t[i], a[i])] :
                      t \in [PersonIds -> TierLabels], a \in [PersonIds -> BOOLEAN]}
    /\ today = GateToday
    /\ cloud_name = "demo"
    /\ subject = NoSubject
    /\ birth = None
    /\ elapsed = 0
    /\ notifications = <<>>
    /\ user_photos = <<>>
    /\ last_id = NoRows
    /\ clock = 0
    /\ tokens = <<>>
    /\ inflight = <<>>
    /\ resp = [op |-> "init"]

Next ==
    \/ \E u \in UserIds, q \in Queries : get_people_list(u, q)
    \/ \E u \in UserIds, person_id \in RequestIds : get_person_detail(u, person_id)
    \/ \E u \in UserIds : get_people_stats(u)
    \/ \E u \in UserIds, person_id \in RequestIds : check_access_to_person(u, person_id)

\* requests processed one at a time against the directory
Spec == Init /\ [][Next]_vars

---------------------------------------------------------------------------
(* The presenters applied to one profile *)

\* photo rows per owner
MaxPhotos == 2
\* largest value of the order column
MaxOrder == 1

\* the photo rows of one owner: primary keys and upload times follow the
\* order of creation (uploaded_at is auto_now_add)
PhotoSets ==
    UNION {{[k \in 1..n |-> PhotoRow(k, f[k].image, f[k].flag, f[k].order)] :
               f \in [1..n -> [image : ImageRefs, flag : BOOLEAN, order : 0..MaxOrder]]} :
           n \in 0..MaxPhotos}

InitPicture ==
    /\ subject \in [profile_picture : {None} \cup ImageRefs, photos : PhotoSets]
    /\ cloud_name \in {"", "demo"}
    /\ accounts = [u \in UserIds |-> [membership_type |-> "regular"]]
    /\ people = <<>>
    /\ today = GateToday
    /\ birth = None
    /\ elapsed = 0
    /\ notifications = <<>>
    /\ user_photos = <<>>
    /\ last_id = NoRows
    /\ clock = 0
    /\ tokens = <<>>
    /\ inflight = <<>>
    /\ resp = [op |-> "init"]

\* a presenter called on the profile; value is what it returns
Present(op, value) ==
    /\ resp' = [op |-> op, value |-> value]
    /\ UNCHANGED <<accounts, people, today, cloud_name, subject, birth, elapsed,
                   notifications, user_photos, last_id, clock,
                   tokens, inflight>>

NextPicture ==
    \/ Present("PeopleListSerializer.get_profile_picture",
               List_get_profile_picture(subject))
    \/ Present("PeopleDetailSerializer.get_profile_picture",
               Detail_get_profile_picture(subject))
    \/ Present("NotificationPersonSerializer.get_profile_picture",
               Notif_get_profile_picture(subject))
    \/ Present("UserProfileSerializer.get_profile_picture",
               UserProfile_get_profile_picture(subject))
    \/ Present("PeopleDetailSerializer.get_images", get_images(subject))

\* every presenter on every profile of up to MaxPhotos photos
SpecPicture == InitPicture /\ [][NextPicture]_vars

---------------------------------------------------------------------------
(* The derived age on every pair of dates *)

Dates ==
    {d \in {2000, 2023, 2024} \X {2, 6, 7} \X {14, 15, 16, 29} :
        ~(d[1] = 2023 /\ d[2] = 2 /\ d[3] = 29)}

InitAge ==
    /\ birth \in {None} \cup Dates
    /\ today \in Dates
    /\ accounts = [u \in UserIds |-> [membership_type |-> "regular"]]
    /\ people = <<>>
    /\ cloud_name = "demo"
    /\ subject = NoSubject
    /\ elapsed = 0
    /\ notifications = <<>>
    /\ user_photos = <<>>
    /\ last_id = NoRows
    /\ clock = 0
    /\ tokens = <<>>
    /\ inflight = <<>>
    /\ resp = [op |-> "init"]

\* reading the age property of an Account born on birth
read_CustomUser_age ==
    /\ resp' = [op |-> "CustomUser.age", value |-> CustomUser_age(birth)]
    /\ UNCHANGED <<accounts, people, today, cloud_name, subject, birth, elapsed,
                   notifications, user_photos, last_id, clock,
                   tokens, inflight>>

\* saving a Person born on birth (date_of_birth is a required column)
People_save ==
    /\ birth # None
    /\ resp' = [op |-> "People.save",
                value |-> People_save_age([date_of_birth |-> birth, age |-> None])]
    /\ UNCHANGED <<accounts, people, today, cloud_name, subject, birth, elapsed,
                   notifications, user_photos, last_id, clock,
                   tokens, inflight>>

NextAge == read_CustomUser_age \/ People_save

SpecAge == InitAge /\ [][NextAge]_vars

---------------------------------------------------------------------------
(* time_ago on elapsed times around every bucket boundary *)

\* multiples of each bucket size that are tried
MaxMultiple == 3
\* ticks tried on either side of each multiple
MaxOffset == 3

ElapsedTicks ==
    {unit * k * TicksPerSecond + d :
        unit \in {SecondsPerMinute, SecondsPerHour, SecondsPerDay, SecondsPerWeek},
        k \in 0..MaxMultiple, d \in (-MaxOffset)..MaxOffset}
    \cup {sec * TicksPerSecond : sec \in {30, 90, 3700, 90000, 700000}}

InitTimeAgo ==
    /\ elapsed \in ElapsedTicks
    /\ accounts = [u \in UserIds |-> [membership_type |-> "regular"]]
    /\ people = <<>>
    /\ today = GateToday
    /\ cloud_name = "demo"
    /\ subject = NoSubject
    /\ birth = None
    /\ notifications = <<>>
    /\ user_photos = <<>>
    /\ last_id = NoRows
    /\ clock = 0
    /\ tokens = <<>>
    /\ inflight = <<>>
    /\ resp = [op |-> "init"]

\* serializing a notification created elapsed ticks ago
read_time_ago ==
    /\ resp' = [op |-> "get_time_ago", value |-> get_time_ago(elapsed)]
    /\ UNCHANGED <<accounts, people, today, cloud_name, subject, birth, elapsed,
                   notifications, user_photos, last_id, clock,
                   tokens, inflight>>

NextTimeAgo == read_time_ago

SpecTimeAgo == InitTimeAgo /\ [][NextTimeAgo]_vars

---------------------------------------------------------------------------
(* Notification feed: rows, serializers and the owner's views *)

\* request.GET.get('limit', 50) and queryset[:50]
DefaultLimit == 50

\* cap on the Notification rows ever created (primary keys are not reused)
MaxNotifications == 2
\* cap on the clock
MaxTime == 1

\* accounts of the feed: 1 and 2 are active, 3 is inactive, 4 has no row;
\* only an active account authenticates
FeedAccounts ==
    [i \in {1, 2, 3} |-> [membership_type |-> "regular", is_active |-> i # 3]]
FeedOwners == {i \in DOMAIN FeedAccounts : FeedAccounts[i].is_active}
FeedUserIds == {1, 2, 3, 4}

\* subjects of the feed: Person 1 is active, Person 2 is inactive, 3 has no row
FeedPeople == [i \in {1, 2} |-> PersonRow(i, "regular", i = 1)]
FeedPersonIds == {1, 2, 3}

\* ids a notification request may name: every row ever created
NotificationIds == 1..MaxNotifications

\* Notification.objects.create(user, person, notification_type, message):
\* the row as stored, unread and with no read timestamp
Notification_create(id, user, person, notification_type, message) ==
    [id |-> id, user |-> user, person |-> person,
     notification_type |-> notification_type, message |-> message,
     is_read |-> FALSE, read_at |-> None]

\* Notification.mark_as_read(): flips an unread row and stamps it; a read row
\* is left as it is
Notification_mark_as_read(self) ==
    IF self.is_read THEN self
    ELSE [self EXCEPT !.is_read = TRUE, !.read_at = Some(clock)]

\* the feed order of a set of Notification ids: newest first
notification_ordering(ids) ==
    [k \in 1..Cardinality(ids) |->
        CHOOSE i \in ids : Cardinality({j \in ids : j > i}) = k - 1]

\* NotificationPersonSerializer(person).data
NotificationPersonSerializer(obj) ==
    [id |-> obj.id,
     first_name |-> obj.first_name,
     last_name |-> obj.last_name,
     full_name |-> full_name(obj),
     age |-> obj.age,
     occupation |-> obj.occupation,
     location |-> obj.location,
     verified |-> obj.verified,
     profile_picture |-> Notif_get_profile_picture(obj),
     membership_type |-> obj.membership_type]

\* NotificationSerializer(notification).data (created_at and time_ago, which
\* no view reads, are left out; get_time_ago is modelled above)
NotificationSerializer(obj) ==
    [id |-> obj.id,
     user |-> obj.user,
     person |-> NotificationPersonSerializer(people[obj.person]),
     notification_type |-> obj.notification_type,
     message |-> obj.message,
     is_read |-> obj.is_read,
     read_at |-> obj.read_at]

\* NotificationSerializer(queryset, many=True).data
NotificationSerializer_many(qs) ==
    [k \in 1..Len(qs) |-> NotificationSerializer(notifications[qs[k]])]

\* Notification.objects.filter(user=request.user)
filter_user(u) == {i \in DOMAIN notifications : notifications[i].user = u}

\* Notification.objects.filter(user=request.user, is_read=is_read)
filter_user_is_read(u, is_read) ==
    {i \in filter_user(u) : notifications[i].is_read = is_read}

\* mutant of Notification_get: the lookup does not look at the owner
Notification_get_any_owner(notification_id, u) ==
    IF notification_id \in DOMAIN notifications
    THEN Some(notifications[notification_id]) ELSE None

\* Notification.objects.get(id=notification_id, user=request.user): <<>> is
\* DoesNotExist
Notification_get(notification_id, u) ==
    IF notification_id \in DOMAIN notifications
       /\ notifications[notification_id].user = u
    THEN Some(notifications[notification_id]) ELSE None

\* int(limit): the literals that parse (the others raise ValueError)
limit_int_ok(v) == v \in {"0", "1", "-1"}
limit_int_val(v) == CASE v = "0" -> 0 [] v = "1" -> 1 [] v = "-1" -> -1

\* queryset[:n] for n >= 0
slice_to(qs, n) == SubSeq(qs, 1, IF n < Len(qs) THEN n ELSE Len(qs))

\* the query strings of GET notifications, "" for an absent one: the filter
\* is 'true' only for a value that lowers to it
ListQueries ==
    {[is_read |-> "", limit |-> ""],
     [is_read |-> "True", limit |-> "abc"],
     [is_read |-> "false", limit |-> "1"],
     [is_read |-> "", limit |-> "0"],
     [is_read |-> "", limit |-> "-1"]}

\* the 200 response of get_user_notifications for the sliced queryset
notifications_body(u, queryset) ==
    LET total_count == Cardinality(filter_user(u))
        unread_count == Cardinality(filter_user_is_read(u, FALSE))
    IN  [notifications |-> NotificationSerializer_many(queryset),
         total_count |-> total_count,
         unread_count |-> unread_count,
         read_count |-> total_count - unread_count]

\* get_user_notifications.  A negative limit makes queryset[:limit] raise:
\* AssertionError before Django 4.0, which leaves the view, and ValueError
\* from 4.0 on, which the except clause of the view catches
get_user_notifications(u, q) ==
    LET filtered == IF q.is_read # ""
                    THEN filter_user_is_read(u, lower_str(q.is_read) = "true")
                    ELSE filter_user(u)
        queryset == notification_ordering(filtered)
        ok(sliced) == resp' = [op |-> "get_user_notifications",
                               request |-> [user |-> u, query |-> q],
                               status |-> 200,
                               body |-> notifications_body(u, sliced)]
    IN  /\ IF q.limit = "" THEN ok(slice_to(queryset, DefaultLimit))
           ELSE IF ~limit_int_ok(q.limit) THEN ok(slice_to(queryset, DefaultLimit))
           ELSE IF limit_int_val(q.limit) >= 0
           THEN ok(slice_to(queryset, limit_int_val(q.limit)))
           ELSE \/ ok(slice_to(queryset, DefaultLimit))
                \/ resp' = [op |-> "get_user_notifications",
                            request |-> [user |-> u, query |-> q],
                            status |-> 500,
                            body |-> [error |-> "AssertionError"]]
        /\ UNCHANGED <<accounts, people, today, cloud_name, subject, birth, elapsed,
                       notifications, user_photos, last_id, clock,
                       tokens, inflight>>

\* mutant of read_on_detail: the detail view does not mark
read_on_detail_skip(notification) == notification

\* "if not notification.is_read: notification.mark_as_read()"
read_on_detail(notification) ==
    IF ~notification.is_read THEN Notification_mark_as_read(notification)
    ELSE notification

\* get_notification_detail
get_notification_detail(u, notification_id) ==
    /\ IF Notification_get(notification_id, u) = None
       THEN /\ resp' = [op |-> "get_notification_detail",
                        request |-> [user |-> u, notification_id |-> notification_id],
                        status |-> 404,
                        body |-> [error |-> "Notification not found"]]
            /\ UNCHANGED notifications
       ELSE LET notification == read_on_detail(Notification_get(notification_id, u)[1])
            IN  /\ notifications' = [notifications EXCEPT ![notification_id] = notification]
                /\ resp' = [op |-> "get_notification_detail",
                            request |-> [user |-> u, notification_id |-> notification_id],
                            status |-> 200,
                            body |-> [notification |-> NotificationSerializer(notification)]]
    /\ UNCHANGED <<accounts, people, today, cloud_name, subject, birth, elapsed,
                   user_photos, last_id, clock,
                   tokens, inflight>>

\* mark_notification_as_read
mark_notification_as_read(u, notification_id) ==
    /\ IF Notification_get(notification_id, u) = None
       THEN /\ resp' = [op |-> "mark_notification_as_read",
                        request |-> [user |-> u, notification_id |-> notification_id],
                        status |-> 404,
                        body |-> [error |-> "Notification not found"]]
            /\ UNCHANGED notifications
       ELSE LET notification ==
                    Notification_mark_as_read(Notification_get(notification_id, u)[1])
            IN  /\ notifications' = [notifications EXCEPT ![notification_id] = notification]
                /\ resp' = [op |-> "mark_notification_as_read",
                            request |-> [user |-> u, notification_id |-> notification_id],
                            status |-> 200,
                            body |-> [message |-> "Notification marked as read",
                                      notification |-> NotificationSerializer(notification)]]
    /\ UNCHANGED <<accounts, people, today, cloud_name, subject, birth, elapsed,
                   user_photos, last_id, clock,
                   tokens, inflight>>

\* QuerySet.update(is_read=True, read_at=timezone.now()) over the rows ids
update_read(ids) ==
    [i \in DOMAIN notifications |->
        IF i \in ids
        THEN [notifications[i] EXCEPT !.is_read = TRUE, !.read_at = Some(clock)]
        ELSE notifications[i]]

\* mutant of mark_all_filter: the update is not restricted to unread rows
mark_all_filter_read_too(u) == filter_user(u)

\* Notification.objects.filter(user=request.user, is_read=False) of
\* mark_all_notifications_as_read
mark_all_filter(u) == filter_user_is_read(u, FALSE)

\* mark_all_notifications_as_read
mark_all_notifications_as_read(u) ==
    LET updated == mark_all_filter(u)
    IN  /\ notifications' = update_read(updated)
        /\ resp' = [op |-> "mark_all_notifications_as_read",
                    request |-> [user |-> u],
                    status |-> 200,
                    body |-> [updated_count |-> Cardinality(updated)]]
        /\ UNCHANGED <<accounts, people, today, cloud_name, subject, birth, elapsed,
                       user_photos, last_id, clock,
                       tokens, inflight>>

\* the elements of a list
Range(seq) == {seq[k] : k \in 1..Len(seq)}

\* the bodies of POST mark-multiple-read: notification_ids absent (<<>>) or a
\* list of integers, here empty, with an id twice, and naming every row
BulkReadBodies ==
    {[notification_ids |-> None],
     [notification_ids |-> Some(<<>>)],
     [notification_ids |-> Some(<<1, 1>>)]}
    \cup {[notification_ids |-> Some(<<i>>)] : i \in NotificationIds \ {1}}
    \cup {[notification_ids |-> Some([k \in NotificationIds |-> k])]}

\* NotificationBulkReadSerializer.is_valid(): the list is required
NotificationBulkReadSerializer_is_valid(data) == data.notification_ids # None

\* Notification.objects.filter(id__in=notification_ids, user=request.user,
\* is_read=False) of mark_multiple_notifications_as_read
mark_multiple_filter(u, notification_ids) ==
    {i \in filter_user_is_read(u, FALSE) : i \in Range(notification_ids)}

\* mark_multiple_notifications_as_read
mark_multiple_notifications_as_read(u, data) ==
    /\ IF ~NotificationBulkReadSerializer_is_valid(data)
       THEN /\ resp' = [op |-> "mark_multiple_notifications_as_read",
                        request |-> [user |-> u, data |-> data],
                        status |-> 400,
                        body |-> [notification_ids |-> "This field is required."]]
            /\ UNCHANGED notifications
       ELSE LET updated == mark_multiple_filter(u, data.notification_ids[1])
            IN  /\ notifications' = update_read(updated)
                /\ resp' = [op |-> "mark_multiple_notifications_as_read",
                            request |-> [user |-> u, data |-> data],
                            status |-> 200,
                            body |-> [updated_count |-> Cardinality(updated)]]
    /\ UNCHANGED <<accounts, people, today, cloud_name, subject, birth, elapsed,
                   user_photos, last_id, clock,
                   tokens, inflight>>

\* QuerySet.delete() over the rows ids
delete_rows(ids) == [i \in DOMAIN notifications \ ids |-> notifications[i]]

\* delete_notification
delete_notification(u, notification_id) ==
    /\ IF Notification_get(notification_id, u) = None
       THEN /\ resp' = [op |-> "delete_notification",
                        request |-> [user |-> u, notification_id |-> notification_id],
                        status |-> 404,
                        body |-> [error |-> "Notification not found"]]
            /\ UNCHANGED notifications
       ELSE /\ notifications' = delete_rows({notification_id})
            /\ resp' = [op |-> "delete_notification",
                        request |-> [user |-> u, notification_id |-> notification_id],
                        status |-> 200,
                        body |-> [message |-> "Notification deleted successfully"]]
    /\ UNCHANGED <<accounts, people, today, cloud_name, subject, birth, elapsed,
                   user_photos, last_id, clock,
                   tokens, inflight>>

\* mutant of delete_all_read_filter: the delete is not restricted to read rows
delete_all_read_filter_unread_too(u) == filter_user(u)

\* Notification.objects.filter(user=request.user, is_read=True) of
\* delete_all_read_notifications
delete_all_read_filter(u) == filter_user_is_read(u, TRUE)

\* delete_all_read_notifications: delete() returns the number of rows deleted
\* (no table refers to Notification, so nothing cascades)
delete_all_read_notifications(u) ==
    LET deleted == delete_all_read_filter(u)
    IN  /\ notifications' = delete_rows(deleted)
        /\ resp' = [op |-> "delete_all_read_notifications",
                    request |-> [user |-> u],
                    status |-> 200,
                    body |-> [deleted_count |-> Cardinality(deleted)]]
        /\ UNCHANGED <<accounts, people, today, cloud_name, subject, birth, elapsed,
                       user_photos, last_id, clock,
                       tokens, inflight>>

\* get_notification_stats: by_type is the values().annotate(Count) rows, one
\* per notification_type the account has
get_notification_stats(u) ==
    LET total == Cardinality(filter_user(u))
        unread == Cardinality(filter_user_is_read(u, FALSE))
        types == {notifications[i].notification_type : i \in filter_user(u)}
    IN  /\ resp' = [op |-> "get_notification_stats",
                    request |-> [user |-> u],
                    status |-> 200,
                    body |-> [total_notifications |-> total,
                              unread_notifications |-> unread,
                              read_notifications |-> total - unread,
                              by_type |-> {[notification_type |-> t,
                                            count |-> Cardinality({i \in filter_user(u) :
                                                notifications[i].notification_type = t})] :
                                           t \in types}]]
        /\ UNCHANGED <<accounts, people, today, cloud_name, subject, birth, elapsed,
                       notifications, user_photos, last_id, clock,
                       tokens, inflight>>

---------------------------------------------------------------------------
(* Notification feed: administrative creation and the admin-site actions *)

\* mutant of NotificationCreateSerializer_validate: the subject is not checked
NotificationCreateSerializer_validate_user_only(user, person) ==
    IF ~user.is_active
    THEN [user |-> "Cannot send notification to inactive user"]
    ELSE None

\* NotificationCreateSerializer.validate: <<>> when the data pass, the
\* ValidationError otherwise
NotificationCreateSerializer_validate(user, person) ==
    IF ~user.is_active
    THEN [user |-> "Cannot send notification to inactive user"]
    ELSE IF ~person.is_active
    THEN [person |-> "Cannot send notification about inactive person"]
    ELSE None

\* NotificationCreateSerializer.is_valid(): the two primary keys resolve
\* (PrimaryKeyRelatedField) and validate() passes; the value is the errors
NotificationCreateSerializer_errors(data) ==
    IF data.user \notin DOMAIN accounts
    THEN [user |-> "Invalid pk - object does not exist."]
    ELSE IF data.person \notin DOMAIN people
    THEN [person |-> "Invalid pk - object does not exist."]
    ELSE NotificationCreateSerializer_validate(accounts[data.user], people[data.person])

\* create_notification
create_notification(data) ==
    /\ IF NotificationCreateSerializer_errors(data) = None
       THEN LET id == last_id.notification + 1
                notification == Notification_create(id, data.user, data.person,
                                    data.notification_type, data.message)
            IN  /\ id <= MaxNotifications
                /\ notifications' =
                       [i \in DOMAIN notifications \cup {id} |->
                           IF i = id THEN notification ELSE notifications[i]]
                /\ last_id' = [last_id EXCEPT !.notification = id]
                /\ resp' = [op |-> "create_notification",
                            request |-> [data |-> data],
                            status |-> 201,
                            body |-> [message |-> "Notification created successfully",
                                      notification |-> NotificationSerializer(notification)]]
       ELSE /\ resp' = [op |-> "create_notification",
                        request |-> [data |-> data],
                        status |-> 400,
                        body |-> NotificationCreateSerializer_errors(data)]
            /\ UNCHANGED <<notifications, last_id>>
    /\ UNCHANGED <<accounts, people, today, cloud_name, subject, birth, elapsed,
                   user_photos, clock,
                   tokens, inflight>>

\* mutant of bulk_users: the queryset is not restricted to active accounts
bulk_users_inactive_too(user_ids) ==
    {i \in DOMAIN accounts : i \in Range(user_ids)}

\* CustomUser.objects.filter(id__in=user_ids, is_active=True)
bulk_users(user_ids) ==
    {i \in DOMAIN accounts : i \in Range(user_ids) /\ accounts[i].is_active}

\* the orders in which a queryset without ordering may yield the rows ids
Orderings(ids) ==
    {seq \in [1..Cardinality(ids) -> ids] :
        \A i, j \in 1..Cardinality(ids) : i # j => seq[i] # seq[j]}

\* the loop of send_bulk_notifications over users: the rows it creates, the
\* k-th under the k-th new primary key
bulk_created(users, person_id, notification_type, message) ==
    [id \in {last_id.notification + k : k \in 1..Len(users)} |->
        Notification_create(id, users[id - last_id.notification], person_id,
                            notification_type, message)]

\* send_bulk_notifications; person is 0 and message is "" when the request
\* does not carry them, notification_type falls back to 'custom'
send_bulk_notifications(data) ==
    /\ IF data.user_ids = <<>> \/ data.person = 0 \/ data.message = ""
       THEN /\ resp' = [op |-> "send_bulk_notifications",
                        request |-> [data |-> data],
                        status |-> 400,
                        body |-> [error |-> "user_ids, person, and message are required"]]
            /\ UNCHANGED <<notifications, last_id>>
       ELSE IF People_get_active(data.person) = None
       THEN /\ resp' = [op |-> "send_bulk_notifications",
                        request |-> [data |-> data],
                        status |-> 404,
                        body |-> [error |-> "Person not found"]]
            /\ UNCHANGED <<notifications, last_id>>
       ELSE \E users \in Orderings(bulk_users(data.user_ids)) :
              LET created == bulk_created(users, data.person,
                                 IF data.notification_type = "" THEN "custom"
                                 ELSE data.notification_type,
                                 data.message)
              IN  /\ last_id.notification + Len(users) <= MaxNotifications
                  /\ notifications' =
                         [i \in DOMAIN notifications \cup DOMAIN created |->
                             IF i \in DOMAIN created THEN created[i]
                             ELSE notifications[i]]
                  /\ last_id' = [last_id EXCEPT !.notification = @ + Len(users)]
                  /\ resp' = [op |-> "send_bulk_notifications",
                              request |-> [data |-> data],
                              status |-> 201,
                              body |-> [created_count |-> Len(users)]]
    /\ UNCHANGED <<accounts, people, today, cloud_name, subject, birth, elapsed,
                   user_photos, clock,
                   tokens, inflight>>

\* NotificationAdmin.mark_as_read on the selected rows
NotificationAdmin_mark_as_read(queryset) ==
    /\ notifications' = update_read(queryset)
    /\ resp' = [op |-> "NotificationAdmin.mark_as_read",
                request |-> [queryset |-> queryset],
                updated |-> Cardinality(queryset)]
    /\ UNCHANGED <<accounts, people, today, cloud_name, subject, birth, elapsed,
                   user_photos, last_id, clock,
                   tokens, inflight>>

\* NotificationAdmin.mark_as_unread on the selected rows
NotificationAdmin_mark_as_unread(queryset) ==
    /\ notifications' =
           [i \in DOMAIN notifications |->
               IF i \in queryset
               THEN [notifications[i] EXCEPT !.is_read = FALSE, !.read_at = None]
               ELSE notifications[i]]
    /\ resp' = [op |-> "NotificationAdmin.mark_as_unread",
                request |-> [queryset |-> queryset],
                updated |-> Cardinality(queryset)]
    /\ UNCHANGED <<accounts, people, today, cloud_name, subject, birth, elapsed,
                   user_photos, last_id, clock,
                   tokens, inflight>>

\* time passes between two requests
Tick ==
    /\ clock < MaxTime
    /\ clock' = clock + 1
    /\ UNCHANGED <<accounts, people, today, cloud_name, subject, birth, elapsed,
                   notifications, user_photos, last_id, resp, tokens, inflight>>

\* the bodies of POST notifications/create: both active accounts, the
\* inactive and the missing account, the inactive and the missing subject
CreateBodies ==
    {[user |-> u, person |-> 1, notification_type |-> "custom", message |-> "hello"] :
        u \in FeedUserIds}
    \cup {[user |-> 1, person |-> p, notification_type |-> "custom", message |-> "hello"] :
        p \in FeedPersonIds}

\* the bodies of POST notifications/send-bulk: a well-formed one for every
\* subject, then account lists naming an account twice, an inactive and a
\* missing account, and bodies lacking a field
BulkBodies ==
    {[user_ids |-> <<1, 2>>, person |-> p, notification_type |-> "", message |-> "hello"] :
        p \in FeedPersonIds}
    \cup {[user_ids |-> ids, person |-> 1, notification_type |-> "", message |-> "hello"] :
        ids \in {<<1, 1>>, <<2, 3, 4>>, <<3, 4>>}}
    \cup {[user_ids |-> <<>>, person |-> 2, notification_type |-> "", message |-> "hello"],
          [user_ids |-> <<1>>, person |-> 0, notification_type |-> "", message |-> "hello"],
          [user_ids |-> <<1>>, person |-> 3, notification_type |-> "", message |-> ""]}

InitFeed ==
    /\ accounts = FeedAccounts
    /\ people = FeedPeople
    /\ today = GateToday
    /\ cloud_name = "demo"
    /\ subject = NoSubject
    /\ birth = None
    /\ elapsed = 0
    /\ notifications = <<>>
    /\ user_photos = <<>>
    /\ last_id = NoRows
    /\ clock = 0
    /\ tokens = <<>>
    /\ inflight = <<>>
    /\ resp = [op |-> "init"]

NextFeed ==
    \/ \E u \in FeedOwners, q \in ListQueries : get_user_notifications(u, q)
    \/ \E u \in FeedOwners, id \in NotificationIds : get_notification_detail(u, id)
    \/ \E u \in FeedOwners, id \in NotificationIds : mark_notification_as_read(u, id)
    \/ \E u \in FeedOwners : mark_all_notifications_as_read(u)
    \/ \E u \in FeedOwners, data \in BulkReadBodies :
          mark_multiple_notifications_as_read(u, data)
    \/ \E u \in FeedOwners, id \in NotificationIds : delete_notification(u, id)
    \/ \E u \in FeedOwners : delete_all_read_notifications(u)
    \/ \E u \in FeedOwners : get_notification_stats(u)
    \/ \E data \in CreateBodies : create_notification(data)
    \/ \E data \in BulkBodies : send_bulk_notifications(data)
    \/ \E queryset \in SUBSET DOMAIN notifications :
          queryset # {} /\ NotificationAdmin_mark_as_read(queryset)
    \/ \E queryset \in SUBSET DOMAIN notifications :
          queryset # {} /\ NotificationAdmin_mark_as_unread(queryset)
    \/ Tick

\* the feed of two accounts under requests processed one at a time
SpecFeed == InitFeed /\ [][NextFeed]_vars

---------------------------------------------------------------------------
(* Photo views of an Account and registration with photo URLs *)

\* "if len(files) > 6" and "existing_photos_count + len(photos) >= 6"
MaxUserPhotos == 6

\* cap on the UserPhoto rows ever created (primary keys are not reused)
MaxPhotoRows == 8

\* the k-th file of an upload request, the k-th URL of a registration
UploadedFile(k) == <<"upload", k>>
PhotoUrl(k) == <<"http", k>>

\* request.FILES.getlist('photos'): no file, one file, four files and one
\* file more than the view accepts
UploadFiles ==
    {[k \in 1..n |-> UploadedFile(k)] : n \in {0, 1, 4, MaxUserPhotos + 1}}

\* ids a photo request names: the first two rows, a later row, and the last
\* primary key, which is a row of another account or of none
PhotoIds == {1, 2, 5, MaxPhotoRows}

\* the accounts that hold a token: login refuses an account that is not
\* approved, and registration does not return the token it creates
Authenticated == {i \in DOMAIN accounts : accounts[i].is_approved}

\* request.user.photos: the ids of the rows of account u
user_photo_ids(u) == {i \in DOMAIN user_photos : user_photos[i].user = u}

\* the rows of account u, by primary key
user_photo_rows(u) ==
    LET ids == user_photo_ids(u)
    IN  [k \in 1..Cardinality(ids) |->
            user_photos[CHOOSE i \in ids : Cardinality({j \in ids : j < i}) = k - 1]]

\* request.user.photos.all(): the rows of account u in the stored ordering
user_photos_all(u) == photos_all(user_photo_rows(u))

\* UserPhoto.objects.create(user, image, is_profile_picture, order) under the
\* primary key id; uploaded_at is auto_now_add
UserPhoto_create(id, user, image, is_profile_picture, order) ==
    [id |-> id, user |-> user, image |-> image,
     is_profile_picture |-> is_profile_picture, order |-> order,
     uploaded_at |-> id]

\* UserPhotoSerializer(photos, many=True).data
UserPhotoSerializer(photos) ==
    [k \in 1..Len(photos) |->
        [id |-> photos[k].id, image |-> photos[k].image,
         is_profile_picture |-> photos[k].is_profile_picture,
         uploaded_at |-> photos[k].uploaded_at, order |-> photos[k].order]]

\* the table with the rows of the list photos added
with_photos(photos) ==
    [i \in DOMAIN user_photos \cup {photos[k].id : k \in 1..Len(photos)} |->
        IF i \in DOMAIN user_photos THEN user_photos[i]
        ELSE photos[i - last_id.photo]]

\* mutant of ceiling_reached: the loop stops one photo later
ceiling_reached_late(existing_photos_count, created) ==
    existing_photos_count + created > MaxUserPhotos

\* "if existing_photos_count + len(photos) >= 6: break"
ceiling_reached(existing_photos_count, created) ==
    existing_photos_count + created >= MaxUserPhotos

\* mutant of upload_is_profile_picture: every file of a first upload is flagged
upload_is_profile_picture_any_index(existing_photos_count, index) ==
    existing_photos_count = 0

\* is_profile_picture=(existing_photos_count == 0 and index == 0)
upload_is_profile_picture(existing_photos_count, index) ==
    existing_photos_count = 0 /\ index = 0

\* the loop of upload_user_photos from the 0-based index on, photos being the
\* rows created so far
RECURSIVE upload_loop(_, _, _, _, _)
upload_loop(u, files, existing_photos_count, index, photos) ==
    IF index >= Len(files) THEN photos
    ELSE IF ceiling_reached(existing_photos_count, Len(photos)) THEN photos
    ELSE upload_loop(u, files, existing_photos_count, index + 1,
             Append(photos,
                 UserPhoto_create(last_id.photo + Len(photos) + 1, u, files[index + 1],
                     upload_is_profile_picture(existing_photos_count, index),
                     existing_photos_count + index)))

\* upload_user_photos
upload_user_photos(u, files) ==
    /\ IF Len(files) = 0
       THEN /\ resp' = [op |-> "upload_user_photos",
                        request |-> [user |-> u, files |-> files],
                        status |-> 400,
                        body |-> [error |-> "No photos provided"]]
            /\ UNCHANGED <<user_photos, last_id>>
       ELSE IF Len(files) > MaxUserPhotos
       THEN /\ resp' = [op |-> "upload_user_photos",
                        request |-> [user |-> u, files |-> files],
                        status |-> 400,
                        body |-> [error |-> "Maximum 6 photos allowed"]]
            /\ UNCHANGED <<user_photos, last_id>>
       ELSE LET existing_photos_count == Cardinality(user_photo_ids(u))
                photos == upload_loop(u, files, existing_photos_count, 0, <<>>)
            IN  /\ last_id.photo + Len(photos) <= MaxPhotoRows
                /\ user_photos' = with_photos(photos)
                /\ last_id' = [last_id EXCEPT !.photo = @ + Len(photos)]
                /\ resp' = [op |-> "upload_user_photos",
                            request |-> [user |-> u, files |-> files],
                            status |-> 201,
                            body |-> [message |-> "Photos uploaded successfully",
                                      photos |-> UserPhotoSerializer(photos)]]
    /\ UNCHANGED <<accounts, people, today, cloud_name, subject, birth, elapsed,
                   notifications, clock,
                   tokens, inflight>>

\* UserPhoto.objects.get(id=photo_id, user=request.user): <<>> is DoesNotExist
UserPhoto_get(photo_id, u) ==
    IF photo_id \in user_photo_ids(u) THEN Some(user_photos[photo_id]) ELSE None

\* delete_user_photo
delete_user_photo(u, photo_id) ==
    /\ IF UserPhoto_get(photo_id, u) = None
       THEN /\ resp' = [op |-> "delete_user_photo",
                        request |-> [user |-> u, photo_id |-> photo_id],
                        status |-> 404,
                        body |-> [error |-> "Photo not found"]]
            /\ UNCHANGED user_photos
       ELSE /\ user_photos' = [i \in DOMAIN user_photos \ {photo_id} |-> user_photos[i]]
            /\ resp' = [op |-> "delete_user_photo",
                        request |-> [user |-> u, photo_id |-> photo_id],
                        status |-> 200,
                        body |-> [message |-> "Photo deleted successfully"]]
    /\ UNCHANGED <<accounts, people, today, cloud_name, subject, birth, elapsed,
                   notifications, last_id, clock,
                   tokens, inflight>>

\* get_user_photos
get_user_photos(u) ==
    /\ resp' = [op |-> "get_user_photos",
                request |-> [user |-> u],
                status |-> 200,
                body |-> UserPhotoSerializer(user_photos_all(u))]
    /\ UNCHANGED <<accounts, people, today, cloud_name, subject, birth, elapsed,
                   notifications, user_photos, last_id, clock,
                   tokens, inflight>>

\* request.user.photos.filter(is_profile_picture=True).update(
\* is_profile_picture=False)
clear_profile_picture(u) ==
    [i \in DOMAIN user_photos |->
        IF user_photos[i].user = u /\ user_photos[i].is_profile_picture
        THEN [user_photos[i] EXCEPT !.is_profile_picture = FALSE]
        ELSE user_photos[i]]

\* set_profile_picture: the flags are cleared before the photo is looked up
set_profile_picture(u, photo_id) ==
    /\ IF UserPhoto_get(photo_id, u) = None
       THEN /\ user_photos' = clear_profile_picture(u)
            /\ resp' = [op |-> "set_profile_picture",
                        request |-> [user |-> u, photo_id |-> photo_id],
                        status |-> 404,
                        body |-> [error |-> "Photo not found"]]
       ELSE /\ user_photos' = [clear_profile_picture(u) EXCEPT
                                  ![photo_id].is_profile_picture = TRUE]
            /\ resp' = [op |-> "set_profile_picture",
                        request |-> [user |-> u, photo_id |-> photo_id],
                        status |-> 200,
                        body |-> [message |-> "Profile picture updated successfully"]]
    /\ UNCHANGED <<accounts, people, today, cloud_name, subject, birth, elapsed,
                   notifications, last_id, clock,
                   tokens, inflight>>

\* the bodies of POST register: one email with no, two and one more than six
\* photo URLs, a second email with two, and passwords that do not pass; an
\* email is taken from its first registration on
RegisterBodies ==
    {[email |-> "a@example.com", password |-> "pw1", password_ok |-> TRUE,
      membership_type |-> "regular",
      photo_urls |-> [k \in 1..n |-> PhotoUrl(k)]] : n \in {0, 2, MaxUserPhotos + 1}}
    \cup {[email |-> "b@example.com", password |-> "pw1", password_ok |-> TRUE,
           membership_type |-> "regular",
           photo_urls |-> <<PhotoUrl(1), PhotoUrl(2)>>],
          [email |-> "b@example.com", password |-> "pw1", password_ok |-> FALSE,
           membership_type |-> "regular",
           photo_urls |-> <<PhotoUrl(1)>>]}

\* UserRegistrationSerializer.is_valid(): the errors of validate_email,
\* validate_password and validate, <<>> when there is none
UserRegistrationSerializer_errors(data) ==
    IF \E i \in DOMAIN accounts : accounts[i].email = data.email
    THEN [email |-> "A user with this email already exists."]
    ELSE IF ~data.password_ok
    THEN [confirm_password |-> "Passwords don't match"]
    ELSE None

\* the loop of UserRegistrationSerializer.create over photo_urls
registration_photos(user, photo_urls) ==
    [k \in 1..Len(photo_urls) |->
        UserPhoto_create(last_id.photo + k, user, photo_urls[k], k - 1 = 0, k - 1)]

\* the part of UserProfileSerializer(user).data that shows the photos
UserProfileSerializer(id, account, photos) ==
    [id |-> id,
     email |-> account.email,
     membership_type |-> account.membership_type,
     is_approved |-> account.is_approved,
     photos |-> UserPhotoSerializer(photos_all(photos)),
     profile_picture |->
         UserProfile_get_profile_picture([profile_picture |-> None, photos |-> photos])]

\* cap on the Token rows ever created
MaxTokens == 3

\* Token.generate_key(): 160 random bits, taken as a key that was never
\* handed out before
Token_generate_key == last_id.token + 1

\* the Token table with a row of key for account user added
Token_create(rows, key, user) ==
    [k \in DOMAIN rows \cup {key} |-> IF k = key THEN user ELSE rows[k]]

\* CustomUser.objects.create_user(**validated_data): the columns the
\* serializer does not carry take the defaults of the model
CustomUser_create_user(validated_data) ==
    [email |-> validated_data.email,
     password |-> validated_data.password,
     membership_type |-> validated_data.membership_type,
     bio |-> "",
     is_approved |-> FALSE,
     is_active |-> TRUE,
     is_staff |-> FALSE,
     verified |-> FALSE,
     last_login |-> None]

\* register_user: the token it creates is not part of the answer
register_user(data) ==
    /\ IF UserRegistrationSerializer_errors(data) # None
       THEN /\ resp' = [op |-> "register_user",
                        request |-> [data |-> data],
                        status |-> 400,
                        body |-> UserRegistrationSerializer_errors(data)]
            /\ UNCHANGED <<accounts, user_photos, last_id, tokens>>
       ELSE LET id == Cardinality(DOMAIN accounts) + 1
                user == CustomUser_create_user(data)
                photos == registration_photos(id, data.photo_urls)
                key == Token_generate_key
            IN  /\ last_id.photo + Len(photos) <= MaxPhotoRows
                /\ last_id.token < MaxTokens
                /\ accounts' = [i \in DOMAIN accounts \cup {id} |->
                                   IF i = id THEN user ELSE accounts[i]]
                /\ user_photos' = with_photos(photos)
                /\ tokens' = Token_create(tokens, key, id)
                /\ last_id' = [last_id EXCEPT !.photo = @ + Len(photos),
                                              !.token = key]
                /\ resp' = [op |-> "register_user",
                            request |-> [data |-> data],
                            status |-> 201,
                            body |-> [message |-> "Registration successful. Your account is pending approval.",
                                      user |-> UserProfileSerializer(id, user, photos),
                                      is_approved |-> user.is_approved]]
    /\ UNCHANGED <<people, today, cloud_name, subject, birth, elapsed,
                   notifications, clock, inflight>>

\* CustomUserAdmin.approve_users: queryset.update(is_approved=True)
CustomUserAdmin_approve_users(queryset) ==
    /\ accounts' = [i \in DOMAIN accounts |->
                       IF i \in queryset
                       THEN [accounts[i] EXCEPT !.is_approved = TRUE]
                       ELSE accounts[i]]
    /\ resp' = [op |-> "approve_users",
                request |-> [queryset |-> queryset],
                status |-> 200,
                body |-> [updated |-> Cardinality(queryset)]]
    /\ UNCHANGED <<people, today, cloud_name, subject, birth, elapsed,
                   notifications, user_photos, last_id, clock,
                   tokens, inflight>>

\* the selections the administrator approves: the account of the first email
ApproveSelections ==
    {{i} : i \in {j \in DOMAIN accounts : accounts[j].email = "a@example.com"}}

\* no account yet
InitPhotos ==
    /\ accounts = <<>>
    /\ people = <<>>
    /\ today = GateToday
    /\ cloud_name = "demo"
    /\ subject = NoSubject
    /\ birth = None
    /\ elapsed = 0
    /\ notifications = <<>>
    /\ user_photos = <<>>
    /\ last_id = NoRows
    /\ clock = 0
    /\ tokens = <<>>
    /\ inflight = <<>>
    /\ resp = [op |-> "init"]

NextPhotos ==
    \/ \E data \in RegisterBodies : register_user(data)
    \/ \E queryset \in ApproveSelections : CustomUserAdmin_approve_users(queryset)
    \/ \E u \in Authenticated, files \in UploadFiles : upload_user_photos(u, files)
    \/ \E u \in Authenticated, photo_id \in PhotoIds : delete_user_photo(u, photo_id)
    \/ \E u \in Authenticated : get_user_photos(u)
    \/ \E u \in Authenticated, photo_id \in PhotoIds : set_profile_picture(u, photo_id)

\* registration and the photo views under requests processed one at a time
SpecPhotos == InitPhotos /\ [][NextPhotos]_vars

---------------------------------------------------------------------------
(* Claims about the gate and the people list *)

\* the rank of a tier label as the specification states it
SpecRank(label) ==
    CASE label = "regular" -> 1
      [] label = "gold" -> 2
      [] label = "platinum" -> 3
      [] OTHER -> 1

ViewerTier == accounts[resp.request.user].membership_type
SubjectTier == people[resp.request.person_id].membership_type
SubjectActive ==
    /\ resp.request.person_id \in DOMAIN people
    /\ people[resp.request.person_id].is_active

\* C1: on an active Person the detail view answers 200 exactly when
\* rank(viewer) >= rank(subject) and 403 otherwise, and the dry-run check
\* answers has_access with the same truth value, unknown labels ranking 1;
\* in particular equal tiers are granted by both.
C1_GateIsRankComparison ==
    /\ (resp.op = "get_person_detail" /\ SubjectActive) =>
          /\ resp.status \in {200, 403}
          /\ resp.status = 200 <=> SpecRank(ViewerTier) >= SpecRank(SubjectTier)
          /\ ViewerTier = SubjectTier => resp.status = 200
    /\ (resp.op = "check_access_to_person" /\ SubjectActive) =>
          /\ resp.status = 200
          /\ resp.body.has_access <=> SpecRank(ViewerTier) >= SpecRank(SubjectTier)
          /\ ViewerTier = SubjectTier => resp.body.has_access

\* C1 witness: a viewer with an unknown tier label was denied a gold Person
C1_Witness ==
    /\ resp.op = "get_person_detail"
    /\ resp.status = 403
    /\ ViewerTier = "vip"
    /\ SubjectTier = "gold"

\* C2: a denied detail view is exactly the locked representation, a function
\* of the subject's tier and the viewer's tier alone: it holds the required
\* tier, the viewer's tier and the locked marker, and no name, age, photo,
\* contact, social handle or view count of the subject.
C2_DeniedResponseIsLockedOnly ==
    (resp.op = "get_person_detail" /\ resp.status = 403) =>
        resp.body = [error |-> "Access denied",
                     message |-> <<"Upgrade to ", SubjectTier,
                                   " membership to view this profile">>,
                     required_membership |-> SubjectTier,
                     user_membership |-> ViewerTier,
                     locked |-> TRUE]

\* C2 witness: a Person that has a name, a primary picture and a social
\* handle was denied
C2_Witness ==
    /\ resp.op = "get_person_detail"
    /\ resp.status = 403
    /\ people[resp.request.person_id].profile_picture # None
    /\ people[resp.request.person_id].instagram # ""

\* C3: a step that answers a granted detail view adds exactly 1 to the
\* profile_views of the Person viewed and leaves every other counter alone;
\* every other step (denied or NotFound detail view, check_access_to_person,
\* people list, people stats) leaves every counter unchanged.
C3_ViewCounterFrame ==
    [][LET granted == resp'.op = "get_person_detail" /\ resp'.status = 200
       IN  /\ DOMAIN people' = DOMAIN people
           /\ \A i \in DOMAIN people :
                 people'[i].profile_views =
                     IF granted /\ i = resp'.request.person_id
                     THEN people[i].profile_views + 1
                     ELSE people[i].profile_views]_vars

\* C3 witness: a granted detail view has been counted
C3_Witness ==
    /\ resp.op = "get_person_detail"
    /\ resp.status = 200
    /\ people[resp.request.person_id].profile_views = 1
    /\ resp.body.person.profile_views = 1

\* the ids of the rows a people-list response returns
ListedIds == {resp.body.results[k].id : k \in 1..Len(resp.body.results)}

---------------------------------------------------------------------------
(* Claims about the presenters *)

\* the owner's photos in the stored ordering
Stored == photos_all(subject.photos)

\* the image reference the canonical-picture rule selects: the primary
\* picture; else the first stored photo whose flag is set; else the first
\* stored photo; else none
SpecCanonicalRef ==
    IF subject.profile_picture # None THEN subject.profile_picture
    ELSE IF \E k \in 1..Len(Stored) : Stored[k].is_profile_picture
    THEN LET k == CHOOSE k \in 1..Len(Stored) :
                     /\ Stored[k].is_profile_picture
                     /\ \A j \in 1..(k - 1) : ~Stored[j].is_profile_picture
         IN  Stored[k].image
    ELSE IF Len(Stored) > 0 THEN Stored[1].image
    ELSE None

\* the URL a stored image reference stands for: absolute references as they
\* are, relative keys under the configured cloud name
SpecUrl(ref) ==
    IF ref = None THEN None
    ELSE IF ref[1] = "http" \/ cloud_name = "" THEN ref
    ELSE <<"http", "s://res.cloudinary.com/", cloud_name, "/">> \o ref

PicturePresenters ==
    {"PeopleListSerializer.get_profile_picture",
     "PeopleDetailSerializer.get_profile_picture",
     "NotificationPersonSerializer.get_profile_picture"}

\* C5: for a Person the list, detail and notification presenters all return
\* the URL of the picture the priority rule selects (primary picture, first
\* flagged photo in stored order, first photo in stored order, null), and
\* every call on the unchanged profile returns that same value.
C5_CanonicalPictureByPriority ==
    /\ List_get_profile_picture(subject) = SpecUrl(SpecCanonicalRef)
    /\ Detail_get_profile_picture(subject) = SpecUrl(SpecCanonicalRef)
    /\ Notif_get_profile_picture(subject) = SpecUrl(SpecCanonicalRef)
    /\ resp.op \in PicturePresenters => resp.value = SpecUrl(SpecCanonicalRef)

\* C5 witness: no primary picture, two flagged photos, and the presenter
\* returned the one that is first in stored order though created last
C5_Witness ==
    /\ resp.op = "NotificationPersonSerializer.get_profile_picture"
    /\ subject.profile_picture = None
    /\ Len(subject.photos) = 2
    /\ subject.photos[1].is_profile_picture /\ subject.photos[2].is_profile_picture
    /\ subject.photos[1].order > subject.photos[2].order
    /\ subject.photos[1].image # subject.photos[2].image
    /\ resp.value = SpecUrl(subject.photos[2].image)

\* C6 as claimed: for an Account whose primary-picture attribute is set the
\* profile presenter returns what the Person presenter returns on the same
\* attribute and photo set, the attribute ahead of any photo.
C6_AccountPictureAsPerson ==
    (resp.op = "UserProfileSerializer.get_profile_picture"
        /\ subject.profile_picture # None) =>
            /\ resp.value = Detail_get_profile_picture(subject)
            /\ resp.value = SpecUrl(subject.profile_picture)

HasNoDuplicates(seq) ==
    \A i, j \in 1..Len(seq) : i # j => seq[i] # seq[j]

\* C7: the gallery get_images returns never holds the same URL twice.
C7_GalleryHasNoDuplicates ==
    /\ HasNoDuplicates(get_images(subject))
    /\ resp.op = "PeopleDetailSerializer.get_images" => HasNoDuplicates(resp.value)

\* C7 witness: the primary picture is also an owned photo, stored twice under
\* a relative key, and the gallery holds the one URL
C7_Witness ==
    /\ resp.op = "PeopleDetailSerializer.get_images"
    /\ cloud_name = "demo"
    /\ subject.profile_picture = AbsOfRelKey
    /\ Len(subject.photos) = 2
    /\ subject.photos[1].image = RelKey /\ subject.photos[2].image = RelKey
    /\ resp.value = <<AbsOfRelKey>>

\* seq without the later occurrences of a value
RECURSIVE FirstOccurrences(_)
FirstOccurrences(seq) ==
    IF Len(seq) = 0 THEN <<>>
    ELSE LET front == FirstOccurrences(SubSeq(seq, 1, Len(seq) - 1))
             last == seq[Len(seq)]
         IN  IF \E i \in 1..Len(front) : front[i] = last THEN front
             ELSE Append(front, last)

\* C8 as claimed: when the Person has a canonical picture the gallery is
\* that picture's URL followed by the owned photos in stored order (first
\* occurrences only).
C8_GalleryCanonicalFirst ==
    (resp.op = "PeopleDetailSerializer.get_images"
        /\ SpecCanonicalRef # None) =>
            /\ resp.value[1] = SpecUrl(SpecCanonicalRef)
            /\ resp.value =
                  FirstOccurrences(<<SpecUrl(SpecCanonicalRef)>> \o
                      [k \in 1..Len(Stored) |-> SpecUrl(Stored[k].image)])

---------------------------------------------------------------------------
(* Claims about the derived age *)

\* a date as one number that orders dates
DateKey(d) == d[1] * 10000 + d[2] * 100 + d[3]

\* a is the number of completed years from birth to today: the a-th birthday
\* has come and the next has not
IsCompletedYears(a) ==
    /\ DateKey(birth) + a * 10000 <= DateKey(today)
    /\ DateKey(today) < DateKey(birth) + (a + 1) * 10000

\* C9: the derived age is the number of completed years, that is the year
\* difference minus one when today's (month, day) is before the birthday's;
\* it changes on the birthday (born 2000-06-15: 23 on 2024-06-14, 24 on
\* 2024-06-15); an Account without a birth date has age null.
C9_AgeIsCompletedYears ==
    /\ (resp.op \in {"CustomUser.age", "People.save"} /\ birth # None) =>
          /\ Len(resp.value) = 1
          /\ IsCompletedYears(resp.value[1])
          /\ resp.value[1] =
                today[1] - birth[1]
                    - (IF today[2] * 100 + today[3] < birth[2] * 100 + birth[3]
                       THEN 1 ELSE 0)
          /\ (birth = <<2000, 6, 15>> /\ today = <<2024, 6, 14>>) => resp.value[1] = 23
          /\ (birth = <<2000, 6, 15>> /\ today = <<2024, 6, 15>>) => resp.value[1] = 24
    /\ (resp.op = "CustomUser.age" /\ birth = None) => resp.value = None

\* C9 witness: the age of an Account read on its birthday
C9_Witness ==
    /\ resp.op = "CustomUser.age"
    /\ birth = <<2000, 6, 15>>
    /\ today = <<2024, 6, 15>>
    /\ resp.value = <<24>>

---------------------------------------------------------------------------
(* Claims about time_ago *)

\* n is floor(seconds / unit) for the elapsed time
IsFloorOf(n, unit) ==
    /\ n * unit * TicksPerSecond <= elapsed
    /\ elapsed < (n + 1) * unit * TicksPerSecond

\* the elapsed time lies in [lo, hi) seconds
SecondsIn(lo, hi) ==
    lo * TicksPerSecond <= elapsed /\ elapsed < hi * TicksPerSecond

\* the value is floor(seconds / unit), at least 1, followed by suffix
Shows(unit, suffix) ==
    /\ resp.value.text = suffix
    /\ Len(resp.value.number) = 1
    /\ IsFloorOf(resp.value.number[1], unit)
    /\ resp.value.number[1] >= 1

\* C10: time_ago is "Just now" below 60 s, floor(s/60) "m ago" below 3600 s,
\* floor(s/3600) "h ago" below 86400 s, floor(s/86400) "d ago" below
\* 604800 s and floor(s/604800) "w ago" from there on; the number is
\* truncated and at least 1 (30 s, 90 s, 3700 s, 90000 s, 700000 s give
\* "Just now", 1m, 1h, 1d, 1w).
C10_TimeAgoBuckets ==
    resp.op = "get_time_ago" =>
        /\ elapsed < 60 * TicksPerSecond =>
              resp.value = [number |-> None, text |-> "Just now"]
        /\ SecondsIn(60, 3600) => Shows(60, "m ago")
        /\ SecondsIn(3600, 86400) => Shows(3600, "h ago")
        /\ SecondsIn(86400, 604800) => Shows(86400, "d ago")
        /\ elapsed >= 604800 * TicksPerSecond => Shows(604800, "w ago")
        /\ elapsed = 30 * TicksPerSecond => resp.value.text = "Just now"
        /\ elapsed = 90 * TicksPerSecond =>
              resp.value = [number |-> <<1>>, text |-> "m ago"]
        /\ elapsed = 3700 * TicksPerSecond =>
              resp.value = [number |-> <<1>>, text |-> "h ago"]
        /\ elapsed = 90000 * TicksPerSecond =>
              resp.value = [number |-> <<1>>, text |-> "d ago"]
        /\ elapsed = 700000 * TicksPerSecond =>
              resp.value = [number |-> <<1>>, text |-> "w ago"]

\* C10 witness: one tick short of two minutes is shown as 1m ago
C10_Witness ==
    /\ resp.op = "get_time_ago"
    /\ elapsed = 120 * TicksPerSecond - 1
    /\ resp.value = [number |-> <<1>>, text |-> "m ago"]

---------------------------------------------------------------------------
(* Claims about the notification feed *)

\* the limit a list request carries, as an integer when it is one
ListLimit == resp.request.query.limit

\* C11 as claimed: the notification list always answers with a list: at most
\* 50 notifications when the limit is missing or not numeric, at most n for
\* an integer limit n (none for n <= 0), and never an error.
C11_ListLimitNeverFails ==
    resp.op = "get_user_notifications" =>
        /\ resp.status = 200
        /\ ~limit_int_ok(ListLimit) => Len(resp.body.notifications) <= 50
        /\ limit_int_ok(ListLimit) =>
              Len(resp.body.notifications) <=
                  (IF limit_int_val(ListLimit) < 0 THEN 0 ELSE limit_int_val(ListLimit))

\* the views an authenticated account calls on its feed
OwnerOps ==
    {"get_user_notifications", "get_notification_detail",
     "mark_notification_as_read", "mark_all_notifications_as_read",
     "mark_multiple_notifications_as_read", "delete_notification",
     "delete_all_read_notifications", "get_notification_stats"}

\* the step answers a request to the view op (the clock stands still while a
\* request is served)
Answers(op) == clock' = clock /\ resp'.op = op

\* the notifications of account a before the step, and the unread ones
Owned(a) == {i \in DOMAIN notifications : notifications[i].user = a}
OwnedUnread(a) == {i \in Owned(a) : ~notifications[i].is_read}

\* the rows the step changed or removed
Touched ==
    {i \in DOMAIN notifications :
        i \notin DOMAIN notifications' \/ notifications'[i] # notifications[i]}

\* C12: a request of account A to any of the eight feed views leaves every
\* notification of another account as it was and returns or counts only
\* notifications of A; get_one, mark_read and delete on an id that is not a
\* notification of A answer 404 and change nothing.
C12_OwnerScoped ==
    [][(clock' = clock /\ resp'.op \in OwnerOps) =>
        LET A == resp'.request.user
            foreign(id) == id \notin Owned(A)
        IN  /\ Touched \subseteq Owned(A)
            /\ DOMAIN notifications' \subseteq DOMAIN notifications
            /\ (resp'.op = "get_user_notifications" /\ resp'.status = 200) =>
                  /\ \A k \in 1..Len(resp'.body.notifications) :
                        /\ resp'.body.notifications[k].user = A
                        /\ resp'.body.notifications[k].id \in Owned(A)
                  /\ resp'.body.total_count = Cardinality(Owned(A))
                  /\ resp'.body.unread_count = Cardinality(OwnedUnread(A))
            /\ resp'.op = "get_notification_stats" =>
                  /\ resp'.body.total_notifications = Cardinality(Owned(A))
                  /\ resp'.body.unread_notifications = Cardinality(OwnedUnread(A))
                  /\ \A row \in resp'.body.by_type :
                        row.count = Cardinality({i \in Owned(A) :
                            notifications[i].notification_type = row.notification_type})
            /\ resp'.op \in {"mark_all_notifications_as_read",
                             "mark_multiple_notifications_as_read"} =>
                  (resp'.status = 200 =>
                      resp'.body.updated_count = Cardinality(Touched \cap Owned(A)))
            /\ resp'.op = "delete_all_read_notifications" =>
                  resp'.body.deleted_count =
                      Cardinality(Owned(A) \ DOMAIN notifications')
            /\ resp'.op \in {"get_notification_detail", "mark_notification_as_read",
                             "delete_notification"} =>
                  /\ foreign(resp'.request.notification_id) =>
                        (resp'.status = 404 /\ notifications' = notifications)
                  /\ (resp'.op # "delete_notification" /\ resp'.status = 200) =>
                        resp'.body.notification.user = A]_vars

\* C12 witness: an account asked to delete a notification of another account
\* and was answered 404, the notification still being there
C12_Witness ==
    /\ resp.op = "delete_notification"
    /\ resp.status = 404
    /\ resp.request.notification_id \in DOMAIN notifications
    /\ notifications[resp.request.notification_id].user # resp.request.user

\* C13: get_one on an unread notification of the caller answers 200, sets
\* the read flag and stamps the read timestamp with the time of the request,
\* returns the notification as read with that timestamp, and changes nothing
\* else of that notification nor any other notification.
C13_DetailMarksRead ==
    [][LET A == resp'.request.user
           id == resp'.request.notification_id
       IN  (/\ Answers("get_notification_detail")
            /\ id \in OwnedUnread(A)) =>
               /\ resp'.status = 200
               /\ notifications' =
                      [notifications EXCEPT ![id].is_read = TRUE,
                                            ![id].read_at = <<clock>>]
               /\ resp'.body.notification.id = id
               /\ resp'.body.notification.is_read
               /\ resp'.body.notification.read_at = <<clock>>]_vars

\* C13 witness: the detail view returned a notification as read at time 1,
\* the time of the request, and the row carries that stamp
C13_Witness ==
    /\ resp.op = "get_notification_detail"
    /\ resp.status = 200
    /\ clock = 1
    /\ resp.body.notification.is_read
    /\ resp.body.notification.read_at = <<1>>
    /\ notifications[resp.request.notification_id].read_at = <<1>>
    /\ \E j \in DOMAIN notifications : ~notifications[j].is_read

\* the table after the rows ids are flipped to read at the current time
Flipped(ids) ==
    [i \in DOMAIN notifications |->
        IF i \in ids
        THEN [notifications[i] EXCEPT !.is_read = TRUE, !.read_at = <<clock>>]
        ELSE notifications[i]]

\* C14: mark_all_read flips exactly the caller's unread notifications and
\* mark_many_read exactly the caller's unread notifications whose id is
\* listed; each reports the number flipped as updated_count, and the same
\* call made again right after reports 0 and changes nothing.
C14_MarkReadCountsFlips ==
    [][LET A == resp'.request.user
       IN  /\ Answers("mark_all_notifications_as_read") =>
                 /\ notifications' = Flipped(OwnedUnread(A))
                 /\ resp'.body.updated_count = Cardinality(OwnedUnread(A))
           /\ (Answers("mark_multiple_notifications_as_read") /\ resp'.status = 200) =>
                 LET listed == Range(resp'.request.data.notification_ids[1])
                 IN  /\ notifications' = Flipped(OwnedUnread(A) \cap listed)
                     /\ resp'.body.updated_count =
                            Cardinality(OwnedUnread(A) \cap listed)
           /\ (/\ clock' = clock
               /\ resp'.op \in {"mark_all_notifications_as_read",
                                "mark_multiple_notifications_as_read"}
               /\ resp'.status = 200
               /\ resp.op = resp'.op
               /\ resp.request = resp'.request) =>
                 /\ resp'.body.updated_count = 0
                 /\ notifications' = notifications]_vars

\* C14 witness: mark_many_read listed two notifications of the caller, one of
\* them read earlier, and reported the one it flipped
C14_Witness ==
    /\ resp.op = "mark_multiple_notifications_as_read"
    /\ resp.status = 200
    /\ resp.request.data.notification_ids = <<(<<1, 2>>)>>
    /\ resp.body.updated_count = 1
    /\ {1, 2} \subseteq DOMAIN notifications
    /\ notifications[1].user = resp.request.user
    /\ notifications[2].user = resp.request.user
    /\ notifications[1].read_at = <<0>>
    /\ notifications[2].read_at = <<1>>

\* the operations that mark notifications read
MarkReadOps ==
    {"mark_notification_as_read", "get_notification_detail",
     "mark_multiple_notifications_as_read", "mark_all_notifications_as_read",
     "NotificationAdmin.mark_as_read"}

\* C15 as claimed: mark_read, get_one, mark_many_read, mark_all_read and the
\* administrative mark-as-read action leave a notification that is already
\* read with its read flag set and its read timestamp unchanged.
C15_RemarkReadIsNoOp ==
    [][(clock' = clock /\ resp'.op \in MarkReadOps) =>
        \A i \in DOMAIN notifications :
            notifications[i].is_read =>
                /\ i \in DOMAIN notifications'
                /\ notifications'[i].is_read
                /\ notifications'[i].read_at = notifications[i].read_at]_vars

\* the read notifications of account a before the step
OwnedRead(a) == {i \in Owned(a) : notifications[i].is_read}

\* C16: delete_all_read removes exactly the caller's read notifications and
\* reports their number as deleted_count; the caller's unread notifications,
\* their count and every notification of every other account stay as they
\* were.
C16_DeleteAllReadFrame ==
    [][Answers("delete_all_read_notifications") =>
        LET A == resp'.request.user
        IN  /\ DOMAIN notifications' = DOMAIN notifications \ OwnedRead(A)
            /\ \A i \in DOMAIN notifications' : notifications'[i] = notifications[i]
            /\ resp'.body.deleted_count = Cardinality(OwnedRead(A))
            /\ {i \in DOMAIN notifications' :
                   notifications'[i].user = A /\ ~notifications'[i].is_read}
                   = OwnedUnread(A)]_vars

\* C16 witness: delete_all_read removed one notification and the caller's
\* unread notification is still there
C16_Witness ==
    /\ resp.op = "delete_all_read_notifications"
    /\ resp.body.deleted_count = 1
    /\ \E i \in DOMAIN notifications :
          notifications[i].user = resp.request.user /\ ~notifications[i].is_read

\* the id names an account, respectively a Person, that exists and is
\* inactive
InactiveAccount(id) == id \in DOMAIN accounts /\ ~accounts[id].is_active
InactivePerson(id) == id \in DOMAIN people /\ ~people[id].is_active

C18_BulkCreatesOnePerActiveAccount ==
    [][LET data == resp'.request.data
           added == DOMAIN notifications' \ DOMAIN notifications
           targets == {u \in Range(data.user_ids) :
                          u \in DOMAIN accounts /\ accounts[u].is_active}
       IN  Answers("send_bulk_notifications") =>
              /\ resp'.status = 201 <=>
                    (/\ data.user_ids # <<>> /\ data.message # ""
                     /\ data.person \in DOMAIN people /\ people[data.person].is_active)
              /\ resp'.status = 201 =>
                    /\ \A i \in DOMAIN notifications :
                          i \in DOMAIN notifications' /\ notifications'[i] = notifications[i]
                    /\ \A u \in targets :
                          Cardinality({i \in added : notifications'[i].user = u}) = 1
                    /\ \A i \in added :
                          /\ notifications'[i].user \in targets
                          /\ ~notifications'[i].is_read
                          /\ notifications'[i].read_at = None
                          /\ notifications'[i].person = data.person
                          /\ notifications'[i].message = data.message
                    /\ resp'.body.created_count = Cardinality(added)]_vars

\* C18 witness: send_bulk listed an active, an inactive and a missing account
\* and created the one notification for the active account
C18_Witness ==
    /\ resp.op = "send_bulk_notifications"
    /\ resp.status = 201
    /\ resp.request.data.user_ids = <<2, 3, 4>>
    /\ resp.body.created_count = 1
    /\ \E i \in DOMAIN notifications : notifications[i].user = 2

---------------------------------------------------------------------------
(* Claims about the photos of an Account *)

\* the photo ids of account u after the step
PhotoIdsAfter(u) == {i \in DOMAIN user_photos' : user_photos'[i].user = u}

Min(a, b) == IF a < b THEN a ELSE b
Max(a, b) == IF a > b THEN a ELSE b

\* C19: an upload of n files, 1 <= n <= 6, to an Account that owns e photos
\* is answered 201 and stores exactly the first min(n, max(0, 6 - e)) files,
\* in order, as photos of that Account, every stored photo staying as it was
\* (4 files to an Account with 4 photos leave it with 6); an upload of more
\* than 6 files is answered 400 and stores nothing; an upload or a delete
\* never takes an Account from at most 6 photos to more than 6 and never
\* changes the photos of another Account.
C19_UploadCeiling ==
    [][LET u == resp'.request.user
           e == Cardinality(user_photo_ids(u))
       IN  /\ resp'.op = "upload_user_photos" =>
                 LET files == resp'.request.files
                     n == Len(files)
                     m == Min(n, Max(0, MaxUserPhotos - e))
                     added == DOMAIN user_photos' \ DOMAIN user_photos
                 IN  /\ (1 <= n /\ n <= MaxUserPhotos) =>
                           /\ resp'.status = 201
                           /\ \A i \in DOMAIN user_photos :
                                 i \in DOMAIN user_photos'
                                     /\ user_photos'[i] = user_photos[i]
                           /\ added = {last_id.photo + k : k \in 1..m}
                           /\ \A k \in 1..m :
                                 /\ user_photos'[last_id.photo + k].user = u
                                 /\ user_photos'[last_id.photo + k].image = files[k]
                           /\ Len(resp'.body.photos) = m
                           /\ Cardinality(PhotoIdsAfter(u)) = e + m
                           /\ (e = 4 /\ n = 4) => Cardinality(PhotoIdsAfter(u)) = 6
                     /\ n > MaxUserPhotos =>
                           /\ resp'.status = 400
                           /\ user_photos' = user_photos
           /\ resp'.op \in {"upload_user_photos", "delete_user_photo"} =>
                 /\ e <= MaxUserPhotos =>
                       Cardinality(PhotoIdsAfter(u)) <= MaxUserPhotos
                 /\ \A a \in DOMAIN accounts :
                       a # u => PhotoIdsAfter(a) = user_photo_ids(a)]_vars

\* C19 witness: four files were uploaded to an Account that owned four photos;
\* two were stored and the Account owns six
C19_Witness ==
    /\ resp.op = "upload_user_photos"
    /\ resp.status = 201
    /\ Len(resp.request.files) = 4
    /\ Len(resp.body.photos) = 2
    /\ resp.body.photos[1].image = UploadedFile(1)
    /\ resp.body.photos[2].image = UploadedFile(2)
    /\ Cardinality(user_photo_ids(resp.request.user)) = 6

\* the canonical photos of account u after the step
CanonicalAfter(u) ==
    {i \in PhotoIdsAfter(u) : user_photos'[i].is_profile_picture}

\* C20: after every register, approve, upload, set-canonical and delete-photo
\* step every Account has at most one photo with the canonical flag; an
\* upload flags its first stored photo when the Account had no photo and no
\* photo otherwise, leaving the flags of the stored photos alone; an answered
\* set-canonical leaves the named photo as the only canonical one of the
\* Account.
C20_AtMostOneCanonical ==
    [][/\ \A a \in DOMAIN accounts' : Cardinality(CanonicalAfter(a)) <= 1
       /\ (resp'.op = "upload_user_photos" /\ resp'.status = 201) =>
             LET u == resp'.request.user
                 added == DOMAIN user_photos' \ DOMAIN user_photos
             IN  /\ {i \in added : user_photos'[i].is_profile_picture}
                       = IF user_photo_ids(u) = {} /\ added # {}
                         THEN {last_id.photo + 1}
                         ELSE {}
                 /\ \A i \in DOMAIN user_photos :
                       user_photos'[i].is_profile_picture
                           = user_photos[i].is_profile_picture
       /\ (resp'.op = "set_profile_picture" /\ resp'.status = 200) =>
             CanonicalAfter(resp'.request.user) = {resp'.request.photo_id}]_vars

\* C20 witness: photo 1, canonical since it was stored, is no longer
\* canonical after set-canonical on photo 2 of the same Account
C20_Witness ==
    /\ resp.op = "set_profile_picture"
    /\ resp.status = 200
    /\ resp.request.photo_id = 2
    /\ {1, 2} \subseteq user_photo_ids(resp.request.user)
    /\ ~user_photos[1].is_profile_picture
    /\ user_photos[2].is_profile_picture

---------------------------------------------------------------------------
(* Claims about the lifecycle of a notification and the photo ceiling *)

\* C25 as claimed: over all operations, the administrative actions included,
\* a notification whose read flag is set keeps the flag and a read timestamp
\* for as long as it is stored.
C25_ReadStaysRead ==
    [][\A i \in DOMAIN notifications \cap DOMAIN notifications' :
          notifications[i].is_read =>
              /\ notifications'[i].is_read
              /\ notifications'[i].read_at # None]_vars

\* C27 as claimed: in every state reached by register, upload and
\* delete-photo requests processed one at a time, every Account owns at most
\* 6 photos, a newly registered Account included.
C27_AtMostSixPhotos ==
    \A a \in DOMAIN accounts : Cardinality(user_photo_ids(a)) <= MaxUserPhotos

\* C29 as claimed: a set-canonical request that is answered NotFound leaves
\* every photo as it was, so the caller's canonical photo is the same one
\* after the request.
C29_FailedSetCanonicalChangesNothing ==
    [][(resp'.op = "set_profile_picture" /\ resp'.status = 404) =>
          user_photos' = user_photos]_vars

---------------------------------------------------------------------------
(* The stored age of a Person across edits, days and views *)

\* the dates the calendar passes through and the birth dates an edit enters
AgeDays == {<<2024, 6, 14>>, <<2024, 6, 15>>, <<2025, 6, 14>>, <<2025, 6, 15>>}
BirthDates == {<<1995, 6, 15>>, <<2000, 6, 15>>, <<2000, 2, 29>>}

\* a < b on dates
DateLess(a, b) ==
    \/ a[1] < b[1]
    \/ a[1] = b[1] /\ MonthDayLess(a, b)

\* the change form of PeopleAdmin saved with date_of_birth entered: the form
\* sets the editable fields and ModelAdmin.save_model calls obj.save()
PeopleAdmin_save_model(person_id, date_of_birth) ==
    /\ person_id \in DOMAIN people
    /\ LET obj == [people[person_id] EXCEPT !.date_of_birth = date_of_birth]
           saved == [obj EXCEPT !.age = People_save_age(obj)]
       IN  /\ people' = [people EXCEPT ![person_id] = saved]
           /\ resp' = [op |-> "PeopleAdmin.save_model",
                       request |-> [person_id |-> person_id,
                                    date_of_birth |-> date_of_birth],
                       status |-> 200,
                       body |-> [age |-> saved.age]]
    /\ UNCHANGED <<accounts, today, cloud_name, subject, birth, elapsed,
                   notifications, user_photos, last_id, clock,
                   tokens, inflight>>

\* timezone.now().date() moves on to a later day
NextDay ==
    /\ \E d \in AgeDays : DateLess(today, d) /\ today' = d
    /\ resp' = [op |-> "day"]
    /\ UNCHANGED <<accounts, people, cloud_name, subject, birth, elapsed,
                   notifications, user_photos, last_id, clock,
                   tokens, inflight>>

\* the People rows of this specification
AgePersonIds == {1, 2}

\* two People rows saved on the first day, the second above the viewer's tier
InitPersonAge ==
    /\ today = <<2024, 6, 14>>
    /\ accounts = [u \in UserIds |-> [membership_type |-> "regular"]]
    /\ people = [i \in AgePersonIds |->
                    LET row == PersonRow(i, IF i = 1 THEN "regular" ELSE "gold", TRUE)
                    IN  [row EXCEPT !.age = People_save_age(row)]]
    /\ cloud_name = "demo"
    /\ subject = NoSubject
    /\ birth = None
    /\ elapsed = 0
    /\ notifications = <<>>
    /\ user_photos = <<>>
    /\ last_id = NoRows
    /\ clock = 0
    /\ tokens = <<>>
    /\ inflight = <<>>
    /\ resp = [op |-> "init"]

NextPersonAge ==
    \/ \E person_id \in AgePersonIds, date_of_birth \in BirthDates :
          PeopleAdmin_save_model(person_id, date_of_birth)
    \/ NextDay
    \/ \E u \in UserIds, person_id \in RequestIds : get_person_detail(u, person_id)

\* edits in the admin site, days passing and detail views, one at a time
SpecPersonAge == InitPersonAge /\ [][NextPersonAge]_vars

\* C26: a write of a Person that changes date_of_birth stores the
\* completed-years age of the new birth date as of the day of the write; a
\* granted detail view, which persists the view counter only, leaves the
\* stored age and birth date as they were; so the stored age of every Person
\* is the age of its current birth date on some day up to today.
C26_StoredAgeFollowsBirthDate ==
    [][\A i \in DOMAIN people :
          /\ people'[i].date_of_birth # people[i].date_of_birth =>
                people'[i].age = Some(YearsBetween(people'[i].date_of_birth, today))
          /\ resp'.op = "get_person_detail" =>
                /\ people'[i].age = people[i].age
                /\ people'[i].date_of_birth = people[i].date_of_birth
          /\ \E d \in AgeDays :
                /\ ~DateLess(today', d)
                /\ people'[i].age = Some(YearsBetween(people'[i].date_of_birth, d))]_vars

\* C26 witness: an edit on a later day changed the birth date of Person 1
\* and the stored age is the age of the new birth date on that day, which
\* differs from the age stored before
C26_Witness ==
    /\ resp.op = "PeopleAdmin.save_model"
    /\ resp.request.person_id = 1
    /\ today = <<2025, 6, 14>>
    /\ people[1].date_of_birth = <<2000, 6, 15>>
    /\ people[1].age = Some(24)
    /\ people[1].profile_views > 0

---------------------------------------------------------------------------
(* Accounts and tokens: register, login, logout, profile update, password change *)

\* the keys a request presents: every key that can be handed out and one
\* that never is
TokenKeys == 1..(MaxTokens + 1)

AuthEmails == {"a@example.com", "b@example.com"}
AuthPasswords == {"pw1", "pw2"}

\* the authentication of a request that carries "Authorization: Token <key>":
\* the Account of the token, <<>> when the key is unknown or the Account is
\* inactive
TokenAuthentication(key) ==
    IF key \in DOMAIN tokens /\ accounts[tokens[key]].is_active
    THEN Some(tokens[key])
    ELSE None

\* the 401 answer of a view that requires authentication
NotAuthenticated(op, key) ==
    [op |-> op, request |-> [token |-> key], status |-> 401,
     body |-> [detail |-> "Invalid token."]]

\* user.auth_token: the keys of the Token rows of account u
auth_token(u) == {k \in DOMAIN tokens : tokens[k] = u}

\* mutant of auth_token_delete: the row stays
auth_token_delete_kept(u) == tokens

\* request.user.auth_token.delete()
auth_token_delete(u) == [k \in DOMAIN tokens \ auth_token(u) |-> tokens[k]]

\* CustomUser.objects.get(email=email): <<>> is DoesNotExist
CustomUser_get_by_email(email) ==
    IF \E i \in DOMAIN accounts : accounts[i].email = email
    THEN Some(CHOOSE i \in DOMAIN accounts : accounts[i].email = email)
    ELSE None

\* django.contrib.auth.authenticate(username=email, password=password) with
\* the model backend: the Account when the password matches and the Account
\* is active, <<>> otherwise
authenticate(email, password) ==
    LET found == CustomUser_get_by_email(email)
    IN  IF found # None
           /\ accounts[found[1]].password = password
           /\ accounts[found[1]].is_active
        THEN found
        ELSE None

\* UserLoginSerializer.validate: the errors, <<>> when there is none
UserLoginSerializer_errors(data) ==
    LET found == CustomUser_get_by_email(data.email)
    IN  IF found = None
        THEN [email |-> "Invalid credentials"]
        ELSE IF ~accounts[found[1]].is_approved
        THEN [non_field_errors |->
                 "Your account is pending approval. Please wait for admin approval."]
        ELSE IF authenticate(data.email, data.password) = None
        THEN [password |-> "Invalid credentials"]
        ELSE IF ~accounts[authenticate(data.email, data.password)[1]].is_active
        THEN [non_field_errors |-> "This account has been deactivated."]
        ELSE None

LoginBodies == [email : AuthEmails, password : AuthPasswords]

\* login_user
login_user(data) ==
    /\ IF UserLoginSerializer_errors(data) # None
       THEN /\ resp' = [op |-> "login_user",
                        request |-> [data |-> data],
                        status |-> 400,
                        body |-> UserLoginSerializer_errors(data)]
            /\ UNCHANGED <<accounts, tokens, last_id>>
       ELSE LET user == authenticate(data.email, data.password)[1]
            IN  IF ~accounts[user].is_approved
                THEN /\ resp' = [op |-> "login_user",
                                 request |-> [data |-> data],
                                 status |-> 403,
                                 body |-> [error |-> "Account pending approval",
                                           is_approved |-> FALSE]]
                     /\ UNCHANGED <<accounts, tokens, last_id>>
                ELSE LET created == auth_token(user) = {}
                         key == IF created THEN Token_generate_key
                                ELSE CHOOSE k \in auth_token(user) : TRUE
                         saved == [accounts[user] EXCEPT !.last_login = Some(clock)]
                     IN  /\ created => last_id.token < MaxTokens
                         /\ tokens' = IF created
                                      THEN Token_create(tokens, key, user)
                                      ELSE tokens
                         /\ last_id' = IF created
                                       THEN [last_id EXCEPT !.token = key]
                                       ELSE last_id
                         /\ accounts' = [accounts EXCEPT ![user] = saved]
                         /\ resp' = [op |-> "login_user",
                                     request |-> [data |-> data],
                                     status |-> 200,
                                     body |-> [message |-> "Login successful",
                                               token |-> key,
                                               user |-> UserProfileSerializer(user, saved,
                                                            user_photo_rows(user))]]
    /\ UNCHANGED <<people, today, cloud_name, subject, birth, elapsed,
                   notifications, user_photos, clock, inflight>>

\* logout_user
logout_user(key) ==
    /\ IF TokenAuthentication(key) = None
       THEN /\ resp' = NotAuthenticated("logout_user", key)
            /\ UNCHANGED tokens
       ELSE LET user == TokenAuthentication(key)[1]
            IN  /\ tokens' = auth_token_delete(user)
                /\ resp' = [op |-> "logout_user",
                            request |-> [token |-> key, user |-> user],
                            status |-> 200,
                            body |-> [message |-> "Logout successful"]]
    /\ UNCHANGED <<accounts, people, today, cloud_name, subject, birth, elapsed,
                   notifications, user_photos, last_id, clock, inflight>>

\* validate_token
validate_token(key) ==
    /\ resp' = IF key \in DOMAIN tokens
               THEN [op |-> "validate_token",
                     request |-> [token |-> key],
                     status |-> 200,
                     body |-> [valid |-> TRUE, user |-> accounts[tokens[key]].email]]
               ELSE [op |-> "validate_token",
                     request |-> [token |-> key],
                     status |-> 401,
                     body |-> [valid |-> FALSE]]
    /\ UNCHANGED <<accounts, people, today, cloud_name, subject, birth, elapsed,
                   notifications, user_photos, last_id, clock, tokens, inflight>>

\* the bodies of POST password/change: the current password offered, the new
\* one, and whether the new one passes the validators and its confirmation
PasswordBodies ==
    {[current_password |-> "pw1", new_password |-> "pw2", new_password_ok |-> TRUE],
     [current_password |-> "pw2", new_password |-> "pw1", new_password_ok |-> TRUE],
     [current_password |-> "pw1", new_password |-> "pw2", new_password_ok |-> FALSE]}

\* PasswordChangeSerializer.is_valid(): the errors, <<>> when there is none
PasswordChangeSerializer_errors(user, data) ==
    IF accounts[user].password # data.current_password
    THEN [current_password |-> "Current password is incorrect."]
    ELSE IF ~data.new_password_ok
    THEN [confirm_password |-> "New passwords don't match"]
    ELSE None

\* change_password
change_password(key, data) ==
    /\ IF TokenAuthentication(key) = None
       THEN /\ resp' = NotAuthenticated("change_password", key)
            /\ UNCHANGED <<accounts, tokens, last_id>>
       ELSE LET user == TokenAuthentication(key)[1]
            IN  IF PasswordChangeSerializer_errors(user, data) # None
                THEN /\ resp' = [op |-> "change_password",
                                 request |-> [token |-> key, user |-> user, data |-> data],
                                 status |-> 400,
                                 body |-> PasswordChangeSerializer_errors(user, data)]
                     /\ UNCHANGED <<accounts, tokens, last_id>>
                ELSE LET new_key == Token_generate_key
                         deleted == auth_token_delete(user)
                     IN  /\ last_id.token < MaxTokens
                         /\ accounts' = [accounts EXCEPT
                                            ![user].password = data.new_password]
                         /\ tokens' = Token_create(deleted, new_key, user)
                         /\ last_id' = [last_id EXCEPT !.token = new_key]
                         /\ resp' = [op |-> "change_password",
                                     request |-> [token |-> key, user |-> user,
                                                  data |-> data],
                                     status |-> 200,
                                     body |-> [message |-> "Password changed successfully",
                                               token |-> new_key]]
    /\ UNCHANGED <<people, today, cloud_name, subject, birth, elapsed,
                   notifications, user_photos, clock, inflight>>

\* mutant of UserUpdateSerializer_fields: the tier is writable too
UserUpdateSerializer_fields_with_tier == {"email", "bio", "membership_type"}

\* UserUpdateSerializer.Meta.fields, of the columns the model carries
UserUpdateSerializer_fields == {"email", "bio"}

\* the bodies of PATCH profile/update: a profile text, an email that is the
\* caller's own or taken, and a body that also names the columns that grant
\* privileges
UpdateBodies ==
    {[bio |-> "hello"],
     [email |-> "a@example.com"],
     [bio |-> "hello", is_approved |-> TRUE, verified |-> TRUE, is_active |-> FALSE,
      is_staff |-> TRUE, membership_type |-> "platinum"]}

\* UserUpdateSerializer.validate_email
UserUpdateSerializer_errors(user, data) ==
    IF "email" \in DOMAIN data
       /\ \E i \in DOMAIN accounts \ {user} : accounts[i].email = data.email
    THEN [email |-> "A user with this email already exists."]
    ELSE None

\* serializer.save(): the fields of the serializer that the body names are
\* written, the other keys of the body are ignored
UserUpdateSerializer_save(instance, data) ==
    [f \in DOMAIN instance |->
        IF f \in UserUpdateSerializer_fields /\ f \in DOMAIN data
        THEN data[f]
        ELSE instance[f]]

\* update_user_profile (PATCH)
update_user_profile(key, data) ==
    /\ IF TokenAuthentication(key) = None
       THEN /\ resp' = NotAuthenticated("update_user_profile", key)
            /\ UNCHANGED accounts
       ELSE LET user == TokenAuthentication(key)[1]
            IN  IF UserUpdateSerializer_errors(user, data) # None
                THEN /\ resp' = [op |-> "update_user_profile",
                                 request |-> [token |-> key, user |-> user, data |-> data],
                                 status |-> 400,
                                 body |-> UserUpdateSerializer_errors(user, data)]
                     /\ UNCHANGED accounts
                ELSE LET saved == UserUpdateSerializer_save(accounts[user], data)
                     IN  /\ accounts' = [accounts EXCEPT ![user] = saved]
                         /\ resp' = [op |-> "update_user_profile",
                                     request |-> [token |-> key, user |-> user,
                                                  data |-> data],
                                     status |-> 200,
                                     body |-> [message |-> "Profile updated successfully",
                                               user |-> UserProfileSerializer(user, saved,
                                                            user_photo_rows(user))]]
    /\ UNCHANGED <<people, today, cloud_name, subject, birth, elapsed,
                   notifications, user_photos, last_id, clock, tokens, inflight>>

\* CustomUserAdmin.verify_users: queryset.update(verified=True)
CustomUserAdmin_verify_users(queryset) ==
    /\ accounts' = [i \in DOMAIN accounts |->
                       IF i \in queryset
                       THEN [accounts[i] EXCEPT !.verified = TRUE]
                       ELSE accounts[i]]
    /\ resp' = [op |-> "verify_users",
                request |-> [queryset |-> queryset],
                status |-> 200,
                body |-> [updated |-> Cardinality(queryset)]]
    /\ UNCHANGED <<people, today, cloud_name, subject, birth, elapsed,
                   notifications, user_photos, last_id, clock, tokens, inflight>>

\* CustomUserAdmin.deactivate_users: queryset.update(is_active=False)
CustomUserAdmin_deactivate_users(queryset) ==
    /\ accounts' = [i \in DOMAIN accounts |->
                       IF i \in queryset
                       THEN [accounts[i] EXCEPT !.is_active = FALSE]
                       ELSE accounts[i]]
    /\ resp' = [op |-> "deactivate_users",
                request |-> [queryset |-> queryset],
                status |-> 200,
                body |-> [updated |-> Cardinality(queryset)]]
    /\ UNCHANGED <<people, today, cloud_name, subject, birth, elapsed,
                   notifications, user_photos, last_id, clock, tokens, inflight>>

\* the bodies of POST register of this specification: two emails, a tier the
\* caller picks, no photos
AuthRegisterBodies ==
    {[email |-> "a@example.com", password |-> "pw1", password_ok |-> TRUE,
      membership_type |-> "regular", photo_urls |-> <<>>],
     [email |-> "b@example.com", password |-> "pw2", password_ok |-> TRUE,
      membership_type |-> "gold", photo_urls |-> <<>>]}

\* the selections of the administrator: one account at a time
AdminSelections == {{i} : i \in DOMAIN accounts}

\* no account and no token yet
InitAuth ==
    /\ accounts = <<>>
    /\ people = <<>>
    /\ today = GateToday
    /\ cloud_name = "demo"
    /\ subject = NoSubject
    /\ birth = None
    /\ elapsed = 0
    /\ notifications = <<>>
    /\ user_photos = <<>>
    /\ last_id = NoRows
    /\ clock = 0
    /\ tokens = <<>>
    /\ inflight = <<>>
    /\ resp = [op |-> "init"]

NextAuth ==
    \/ \E data \in AuthRegisterBodies : register_user(data)
    \/ \E queryset \in AdminSelections : CustomUserAdmin_approve_users(queryset)
    \/ \E queryset \in AdminSelections : CustomUserAdmin_deactivate_users(queryset)
    \/ \E data \in LoginBodies : login_user(data)
    \/ \E key \in TokenKeys : logout_user(key)
    \/ \E key \in TokenKeys : validate_token(key)
    \/ \E key \in TokenKeys, data \in PasswordBodies : change_password(key, data)

\* accounts, the administrator and token holders, one request at a time
SpecAuth == InitAuth /\ [][NextAuth]_vars

\* the requests an Account makes on itself and the administrator's actions
NextProfile ==
    \/ \E data \in AuthRegisterBodies : register_user(data)
    \/ \E queryset \in AdminSelections : CustomUserAdmin_approve_users(queryset)
    \/ \E queryset \in AdminSelections : CustomUserAdmin_verify_users(queryset)
    \/ \E key \in TokenKeys, data \in PasswordBodies : change_password(key, data)
    \/ \E key \in TokenKeys, data \in UpdateBodies : update_user_profile(key, data)

\* registration, profile update and password change next to the
\* administrator's approval and verification, one request at a time
SpecProfile == InitAuth /\ [][NextProfile]_vars

---------------------------------------------------------------------------
(* Claims about login, tokens and privileges *)

\* the account a login request names, when there is one
LoginAccount(data) == CustomUser_get_by_email(data.email)

\* C21 as claimed: a login that names an existing Account whose approval
\* flag is not set is answered 403 and carries no token, whatever the
\* password; a login answers with a token only when the Account is approved
\* and active and the password is the Account's.
C21_UnapprovedLoginForbidden ==
    [][resp'.op = "login_user" =>
          LET data == resp'.request.data
              found == LoginAccount(data)
          IN  /\ (found # None /\ ~accounts[found[1]].is_approved) =>
                    /\ resp'.status = 403
                    /\ "token" \notin DOMAIN resp'.body
              /\ "token" \in DOMAIN resp'.body =>
                    /\ found # None
                    /\ accounts[found[1]].is_approved
                    /\ accounts[found[1]].is_active
                    /\ accounts[found[1]].password = data.password]_vars

\* the keys of the Token rows of account u after the step
AuthTokenAfter(u) == {k \in DOMAIN tokens' : tokens'[k] = u}

\* C22: after every step every Account has at most one token; a successful
\* login returns the token of the Account, which is the one it already had
\* when it had one, and leaves the tokens of every other Account alone; after
\* an answered logout or password change the key that authenticated the
\* request is no token any more, and a password change returns a key that
\* differs from it and is the token of the Account; a key that stopped being
\* a token never becomes one again, and validate-token reports a key valid
\* exactly when it is a token.
C22_TokenLifecycle ==
    [][/\ \A u \in DOMAIN accounts' : Cardinality(AuthTokenAfter(u)) <= 1
       /\ \A k \in 1..last_id.token : k \notin DOMAIN tokens => k \notin DOMAIN tokens'
       /\ (resp'.op = "login_user" /\ resp'.status = 200) =>
             LET u == LoginAccount(resp'.request.data)[1]
             IN  /\ AuthTokenAfter(u) = {resp'.body.token}
                 /\ auth_token(u) # {} => auth_token(u) = {resp'.body.token}
                 /\ \A v \in DOMAIN accounts \ {u} : AuthTokenAfter(v) = auth_token(v)
       /\ (resp'.op = "logout_user" /\ resp'.status = 200) =>
             /\ resp'.request.token \notin DOMAIN tokens'
             /\ AuthTokenAfter(resp'.request.user) = {}
             /\ \A v \in DOMAIN accounts \ {resp'.request.user} :
                   AuthTokenAfter(v) = auth_token(v)
       /\ (resp'.op = "change_password" /\ resp'.status = 200) =>
             /\ resp'.request.token \notin DOMAIN tokens'
             /\ resp'.body.token # resp'.request.token
             /\ AuthTokenAfter(resp'.request.user) = {resp'.body.token}
             /\ \A v \in DOMAIN accounts \ {resp'.request.user} :
                   AuthTokenAfter(v) = auth_token(v)
       /\ resp'.op \in {"validate_token", "approve_users", "deactivate_users"} =>
             tokens' = tokens
       /\ resp'.op = "validate_token" =>
             resp'.body.valid = (resp'.request.token \in DOMAIN tokens)]_vars

\* C22 witness: validate-token reports key 1 invalid; it was the token of
\* Account 1, whose token is now key 3, returned by a password change or a
\* login after a logout
C22_Witness ==
    /\ resp.op = "validate_token"
    /\ resp.request.token = 1
    /\ resp.status = 401
    /\ ~resp.body.valid
    /\ 3 \in DOMAIN tokens
    /\ tokens[3] = 1

\* the columns that carry the privileges of an Account
Privileges(account) ==
    <<account.is_approved, account.verified, account.is_active,
      account.is_staff, account.membership_type>>

\* C30: a registration that is accepted creates the Account with the
\* approval flag and the verification flag false; no register, profile update
\* or password change step changes the approval flag, the verification flag,
\* the active flag, the staff flag or the tier of any stored Account,
\* whatever the body of the request names.
C30_NoSelfPromotion ==
    [][/\ (resp'.op = "register_user" /\ resp'.status = 201) =>
             \A i \in DOMAIN accounts' \ DOMAIN accounts :
                 /\ ~accounts'[i].is_approved
                 /\ ~accounts'[i].verified
                 /\ ~resp'.body.is_approved
       /\ resp'.op \in {"register_user", "update_user_profile", "change_password"} =>
             \A i \in DOMAIN accounts :
                 Privileges(accounts'[i]) = Privileges(accounts[i])]_vars

\* C30 witness: the gold Account 2, not approved, sent a profile update that
\* names every privilege column; the update was accepted, the profile text
\* was written and the privileges are as they were
C30_Witness ==
    /\ resp.op = "update_user_profile"
    /\ resp.status = 200
    /\ resp.request.user = 2
    /\ "membership_type" \in DOMAIN resp.request.data
    /\ accounts[2].bio = "hello"
    /\ Privileges(accounts[2]) = <<FALSE, FALSE, TRUE, FALSE, "gold">>

---------------------------------------------------------------------------
(* Detail views of a Person served concurrently *)

\* number of requests served at the same time
MaxRequests == 2
\* cap on the view counter in this specification
MaxRaceViews == 2

Requests == 1..MaxRequests

\* the requests that are not being served
Idle(r) == r \notin DOMAIN inflight

\* inflight with request r holding what it has read
Started(r, locals) ==
    [q \in DOMAIN inflight \cup {r} |-> IF q = r THEN locals ELSE inflight[q]]

\* inflight without request r
Finished(r) == [q \in DOMAIN inflight \ {r} |-> inflight[q]]

\* get_person_detail up to the gate: People.objects.get loads the row, the
\* tier check passes; the instance is what the request goes on with
get_person_detail_read(r, u, person_id) ==
    /\ Idle(r)
    /\ People_get_active(person_id) # None
    /\ LET person == People_get_active(person_id)[1]
           user_level == hierarchy_get(accounts[u].membership_type)
           person_level == hierarchy_get(person.membership_type)
       IN  /\ ~(user_level < person_level)
           /\ person.profile_views < MaxRaceViews
           /\ inflight' = Started(r, [op |-> "get_person_detail", user |-> u,
                                      person_id |-> person_id, person |-> person])
    /\ resp' = [op |-> "get_person_detail.read",
                request |-> [user |-> u, person_id |-> person_id]]
    /\ UNCHANGED <<accounts, people, today, cloud_name, subject, birth, elapsed,
                   notifications, user_photos, last_id, clock, tokens>>

\* get_person_detail from "person.profile_views += 1" on: the counter of the
\* instance loaded earlier is incremented and written, then the answer is built
get_person_detail_write(r) ==
    /\ ~Idle(r)
    /\ inflight[r].op = "get_person_detail"
    /\ LET person == inflight[r].person
           viewed == increment_profile_views(person)
           saved == [viewed EXCEPT !.age = People_save_age(viewed)]
       IN  /\ people' = [people EXCEPT
                            ![inflight[r].person_id].profile_views = viewed.profile_views]
           /\ resp' = [op |-> "get_person_detail",
                       request |-> [user |-> inflight[r].user,
                                    person_id |-> inflight[r].person_id],
                       status |-> 200,
                       body |-> [person |-> PeopleDetailSerializer(saved),
                                 locked |-> FALSE,
                                 user_membership |->
                                     accounts[inflight[r].user].membership_type]]
    /\ inflight' = Finished(r)
    /\ UNCHANGED <<accounts, today, cloud_name, subject, birth, elapsed,
                   notifications, user_photos, last_id, clock, tokens>>

\* active People rows every viewer may open
InitViewRace ==
    /\ accounts = [u \in UserIds |-> [membership_type |-> "regular"]]
    /\ people = [i \in PersonIds |-> PersonRow(i, "regular", TRUE)]
    /\ today = GateToday
    /\ cloud_name = "demo"
    /\ subject = NoSubject
    /\ birth = None
    /\ elapsed = 0
    /\ notifications = <<>>
    /\ user_photos = <<>>
    /\ last_id = NoRows
    /\ clock = 0
    /\ tokens = <<>>
    /\ inflight = <<>>
    /\ resp = [op |-> "init"]

NextViewRace ==
    \/ \E r \in Requests, u \in UserIds, person_id \in PersonIds :
          get_person_detail_read(r, u, person_id)
    \/ \E r \in Requests : get_person_detail_write(r)

\* granted detail views whose reads and writes interleave
SpecViewRace == InitViewRace /\ [][NextViewRace]_vars

\* C23 as claimed: whatever the interleaving of the reads and writes of
\* concurrent granted detail views, the stored view counter of a Person
\* never decreases from one state to the next.
C23_ViewCounterMonotonic ==
    [][\A i \in DOMAIN people :
          people'[i].profile_views >= people[i].profile_views]_vars

---------------------------------------------------------------------------
(* Bulk operations of the feed next to concurrent requests *)

\* the bodies of POST notifications/send-bulk served concurrently: two active
\* accounts for an active subject, for a subject without a row, and no account
RaceBulkBodies ==
    {[user_ids |-> <<1, 2>>, person |-> 1, notification_type |-> "", message |-> "hello"],
     [user_ids |-> <<1, 2>>, person |-> 3, notification_type |-> "", message |-> "hello"],
     [user_ids |-> <<>>, person |-> 1, notification_type |-> "", message |-> "hello"]}

\* send_bulk_notifications up to the loop: the checks, the lookup of the
\* subject, and the users queryset, which the for statement evaluates once
send_bulk_notifications_begin(r, data) ==
    /\ Idle(r)
    /\ IF data.user_ids = <<>> \/ data.person = 0 \/ data.message = ""
       THEN /\ resp' = [op |-> "send_bulk_notifications",
                        request |-> [data |-> data],
                        status |-> 400,
                        body |-> [error |-> "user_ids, person, and message are required"]]
            /\ UNCHANGED inflight
       ELSE IF People_get_active(data.person) = None
       THEN /\ resp' = [op |-> "send_bulk_notifications",
                        request |-> [data |-> data],
                        status |-> 404,
                        body |-> [error |-> "Person not found"]]
            /\ UNCHANGED inflight
       ELSE \E users \in Orderings(bulk_users(data.user_ids)) :
              /\ inflight' = Started(r, [op |-> "send_bulk_notifications",
                                         data |-> data, users |-> users,
                                         created |-> 0])
              /\ resp' = [op |-> "send_bulk_notifications.begin",
                          request |-> [data |-> data]]
    /\ UNCHANGED <<accounts, people, today, cloud_name, subject, birth, elapsed,
                   notifications, user_photos, last_id, clock, tokens>>

\* one pass of the loop of send_bulk_notifications: Notification.objects.create
\* for the next user of the list fetched at the start
send_bulk_notifications_create(r) ==
    /\ ~Idle(r)
    /\ inflight[r].op = "send_bulk_notifications"
    /\ inflight[r].created < Len(inflight[r].users)
    /\ last_id.notification < MaxNotifications
    /\ LET data == inflight[r].data
           user == inflight[r].users[inflight[r].created + 1]
           id == last_id.notification + 1
           notification ==
               Notification_create(id, user, data.person,
                   IF data.notification_type = "" THEN "custom"
                   ELSE data.notification_type,
                   data.message)
       IN  /\ notifications' =
                  [i \in DOMAIN notifications \cup {id} |->
                      IF i = id THEN notification ELSE notifications[i]]
           /\ last_id' = [last_id EXCEPT !.notification = id]
           /\ inflight' = [inflight EXCEPT ![r].created = @ + 1]
           /\ resp' = [op |-> "send_bulk_notifications.create",
                       request |-> [data |-> data, user |-> user]]
    /\ UNCHANGED <<accounts, people, today, cloud_name, subject, birth, elapsed,
                   user_photos, clock, tokens>>

\* send_bulk_notifications after the loop: the answer
send_bulk_notifications_end(r) ==
    /\ ~Idle(r)
    /\ inflight[r].op = "send_bulk_notifications"
    /\ inflight[r].created = Len(inflight[r].users)
    /\ resp' = [op |-> "send_bulk_notifications",
                request |-> [data |-> inflight[r].data],
                status |-> 201,
                body |-> [created_count |-> inflight[r].created]]
    /\ inflight' = Finished(r)
    /\ UNCHANGED <<accounts, people, today, cloud_name, subject, birth, elapsed,
                   notifications, user_photos, last_id, clock, tokens>>

\* the accounts that can send requests of their own
ActiveOwners == {i \in DOMAIN accounts : accounts[i].is_active}

NextBulkRace ==
    \/ \E r \in Requests, data \in RaceBulkBodies : send_bulk_notifications_begin(r, data)
    \/ \E r \in Requests : send_bulk_notifications_create(r)
    \/ \E r \in Requests : send_bulk_notifications_end(r)
    \/ \E i \in FeedOwners : CustomUserAdmin_deactivate_users({i})
    \/ \E u \in ActiveOwners : mark_all_notifications_as_read(u)
    \/ \E u \in ActiveOwners : delete_all_read_notifications(u)
    \/ \E u \in ActiveOwners : get_notification_stats(u)

\* bulk sends whose loops interleave with the administrator and the owners
SpecBulkRace == InitFeed /\ [][NextBulkRace]_vars

\* C24 as claimed: a bulk send takes effect in one step, so after no step
\* has a bulk send stored some but not all of its notifications, and it never
\* creates a notification for an Account that is inactive in storage at that
\* moment; mark_all_read and delete_all_read change all the rows they match
\* in the one step that answers them.
C24_BulkTransitionsAtomic ==
    [][/\ \A r \in DOMAIN inflight' :
             inflight'[r].op = "send_bulk_notifications" =>
                 \/ inflight'[r].created = 0
                 \/ inflight'[r].created = Len(inflight'[r].users)
       /\ resp'.op = "send_bulk_notifications.create" =>
             accounts[resp'.request.user].is_active
       /\ resp'.op = "mark_all_notifications_as_read" =>
             \A i \in DOMAIN notifications' :
                 notifications'[i].user = resp'.request.user => notifications'[i].is_read
       /\ resp'.op = "delete_all_read_notifications" =>
             \A i \in DOMAIN notifications' :
                 notifications'[i].user = resp'.request.user => ~notifications'[i].is_read]_vars

---------------------------------------------------------------------------
(* Photo uploads of one Account served concurrently *)

\* request.FILES.getlist('photos') of the concurrent uploads: no file, one
\* file, four files
RaceUploadFiles == {[k \in 1..n |-> UploadedFile(k)] : n \in {0, 1, 4}}

\* upload_user_photos up to the loop: the two checks and
\* request.user.photos.count(), read once
upload_user_photos_begin(r, u, files) ==
    /\ Idle(r)
    /\ IF Len(files) = 0
       THEN /\ resp' = [op |-> "upload_user_photos",
                        request |-> [user |-> u, files |-> files],
                        status |-> 400,
                        body |-> [error |-> "No photos provided"]]
            /\ UNCHANGED inflight
       ELSE IF Len(files) > MaxUserPhotos
       THEN /\ resp' = [op |-> "upload_user_photos",
                        request |-> [user |-> u, files |-> files],
                        status |-> 400,
                        body |-> [error |-> "Maximum 6 photos allowed"]]
            /\ UNCHANGED inflight
       ELSE /\ inflight' = Started(r, [op |-> "upload_user_photos", user |-> u,
                                       files |-> files,
                                       existing_photos_count |->
                                           Cardinality(user_photo_ids(u)),
                                       index |-> 0,
                                       photos |-> <<>>])
            /\ resp' = [op |-> "upload_user_photos.begin",
                        request |-> [user |-> u, files |-> files]]
    /\ UNCHANGED <<accounts, people, today, cloud_name, subject, birth, elapsed,
                   notifications, user_photos, last_id, clock, tokens>>

\* one pass of the loop of upload_user_photos that creates a photo
upload_user_photos_create(r) ==
    /\ ~Idle(r)
    /\ inflight[r].op = "upload_user_photos"
    /\ inflight[r].index < Len(inflight[r].files)
    /\ ~ceiling_reached(inflight[r].existing_photos_count, Len(inflight[r].photos))
    /\ last_id.photo < MaxPhotoRows
    /\ LET q == inflight[r]
           photo == UserPhoto_create(last_id.photo + 1, q.user, q.files[q.index + 1],
                        upload_is_profile_picture(q.existing_photos_count, q.index),
                        q.existing_photos_count + q.index)
       IN  /\ user_photos' = with_photos(<<photo>>)
           /\ last_id' = [last_id EXCEPT !.photo = @ + 1]
           /\ inflight' = [inflight EXCEPT ![r].index = @ + 1,
                                           ![r].photos = Append(@, photo)]
           /\ resp' = [op |-> "upload_user_photos.create",
                       request |-> [user |-> q.user, files |-> q.files]]
    /\ UNCHANGED <<accounts, people, today, cloud_name, subject, birth, elapsed,
                   notifications, clock, tokens>>

\* upload_user_photos after the loop, which ends with the files or at the
\* break: the answer
upload_user_photos_end(r) ==
    /\ ~Idle(r)
    /\ inflight[r].op = "upload_user_photos"
    /\ \/ inflight[r].index >= Len(inflight[r].files)
       \/ ceiling_reached(inflight[r].existing_photos_count, Len(inflight[r].photos))
    /\ resp' = [op |-> "upload_user_photos",
                request |-> [user |-> inflight[r].user, files |-> inflight[r].files],
                status |-> 201,
                body |-> [message |-> "Photos uploaded successfully",
                          photos |-> UserPhotoSerializer(inflight[r].photos)]]
    /\ inflight' = Finished(r)
    /\ UNCHANGED <<accounts, people, today, cloud_name, subject, birth, elapsed,
                   notifications, user_photos, last_id, clock, tokens>>

\* one approved Account without photos
InitUploadRace ==
    /\ accounts = [i \in {1} |->
                      [CustomUser_create_user([email |-> "a@example.com",
                                               password |-> "pw1",
                                               membership_type |-> "regular"])
                          EXCEPT !.is_approved = TRUE]]
    /\ people = <<>>
    /\ today = GateToday
    /\ cloud_name = "demo"
    /\ subject = NoSubject
    /\ birth = None
    /\ elapsed = 0
    /\ notifications = <<>>
    /\ user_photos = <<>>
    /\ last_id = NoRows
    /\ clock = 0
    /\ tokens = <<>>
    /\ inflight = <<>>
    /\ resp = [op |-> "init"]

NextUploadRace ==
    \/ \E r \in Requests, u \in Authenticated, files \in RaceUploadFiles :
          upload_user_photos_begin(r, u, files)
    \/ \E r \in Requests : upload_user_photos_create(r)
    \/ \E r \in Requests : upload_user_photos_end(r)

\* uploads of one Account whose loops interleave
SpecUploadRace == InitUploadRace /\ [][NextUploadRace]_vars

\* the canonical photos of account u
Canonical(u) == {i \in user_photo_ids(u) : user_photos[i].is_profile_picture}

\* C28 as claimed: however the uploads of an Account interleave, the Account
\* owns at most 6 photos and at most one of them is canonical.
C28_CeilingAndCanonicalUnderConcurrency ==
    \A u \in DOMAIN accounts :
        /\ Cardinality(user_photo_ids(u)) <= MaxUserPhotos
        /\ Cardinality(Canonical(u)) <= 1

=============================================================================
